---- MODULE Spec2Model ----
(***************************************************************************)
(* Model of the interview engine of the Arete MCP server:                  *)
(*   packages/mcp-server/src/interview/schema.ts     (state, questions)    *)
(*   packages/mcp-server/src/interview/extractor.ts  (extraction, branch   *)
(*                                                    question generation) *)
(*   packages/mcp-server/src/interview/conductor.ts  (InterviewConductor)  *)
(*                                                                         *)
(* Spec is the Conductor's public API under sequential use: every call is  *)
(* awaited before the next one is made, and any method may be called in    *)
(* any status.  The two outbound completion calls are inputs: the reply of *)
(* the text-completion service is drawn from a bounded set of replies.     *)
(*                                                                         *)
(* Conventions.  An optional field (a TypeScript `x?: T`) is a sequence of *)
(* length 0 (undefined) or 1 (the value).  Confidence is in hundredths.    *)
(* Wall-clock readings are ticks of the variable now; the per-exchange     *)
(* answeredAt/durationMs stamps are not part of the modelled exchange.     *)
(***************************************************************************)
EXTENDS Integers, Sequences, FiniteSets, TLC

VARIABLES
    state,      \* InterviewConductor.state : InterviewState
    call,       \* the last call made on the Conductor, with its arguments
    response,   \* what that call returned (ConductorResponse) or threw
    now,        \* the wall clock read by new Date()
    generatorCalls, \* how often the session has called generateBranchQuestions
    activeInterviews,   \* the handler's map: session id -> that Conductor's state
    interviewStateFile, \* ~/.arete/interview-state.json, if it exists
    identityFile,       \* ~/.arete/identity.json, if it exists
    cloudIdentity,      \* the identity last synced to the cloud, if any
    result,             \* what the last handler call returned or threw
    sessions,           \* how many session ids have been drawn
    tasks,              \* the Conductor's calls that are at an await
    scored,             \* the last call of the Similarity Scorer
    merged,             \* the last merge of the consumption side
    converted,          \* the last build of an output or of an identity record
    contextStore        \* ~/.arete/context.json, the events created, the last call

conductorVars == <<state, response, generatorCalls>>
mergeVars == <<scored, merged>>
outputVars == <<converted, contextStore>>
handlerVars == <<activeInterviews, interviewStateFile, identityFile,
                 cloudIdentity, result, sessions>>
vars == <<state, call, response, now, generatorCalls, activeInterviews,
          interviewStateFile, identityFile, cloudIdentity, result, sessions,
          tasks, scored, merged, converted, contextStore>>

----------------------------------------------------------------------------
(* Bounds *)

MaxNow == 2             \* the clock stops advancing at this tick
MaxBranchReply == 4     \* most questions in one branch-generation reply
MaxCalls == 2           \* the count of generator calls is kept up to this
MaxFactAnswers == 1     \* most answers of one such interview that bring facts
MaxInFlight == 2        \* most calls of the Conductor at an await at once
MaxRuns == 3            \* most runs of equal characters in a scored string
MaxRunLength == 2       \* most characters in one such run
MaxFacts == 3           \* most context events of both sources in one merge
MaxIdentityFacts == 3   \* most IdentityFacts loaded for one prompt
MaxTechnologies == 2    \* most technologies in one interview output
MaxLevelFacts == 3      \* most facts an expertise level is inferred from
MaxAdds == 104          \* most context events ever created

----------------------------------------------------------------------------
(* Optional values *)

None == <<>>
Some(v) == <<v>>
OrElse(o, d) == IF o = None THEN d ELSE o[1]

Min(a, b) == IF a < b THEN a ELSE b
Max(a, b) == IF a > b THEN a ELSE b

\* Array.prototype.slice(-n): the last n elements
SliceLast(s, n) == SubSeq(s, Max(1, Len(s) - n + 1), Len(s))
\* Array.prototype.slice(0, n): the first n elements
SliceFirst(s, n) == SubSeq(s, 1, Min(n, Len(s)))

Last(s) == s[Len(s)]

\* new Map(), Map.prototype.set
EmptyMap == [k \in {} |-> None]
MapSet(m, key, value) ==
    [k \in DOMAIN m \cup {key} |-> IF k = key THEN value ELSE m[k]]

RECURSIVE Flatten(_)
Flatten(ss) == IF ss = <<>> THEN <<>> ELSE Head(ss) \o Flatten(Tail(ss))

----------------------------------------------------------------------------
(* schema.ts *)

CORE_QUESTIONS ==
    << [id |-> "q1_role",  phase |-> "core", text |-> "What do you do?"],
       [id |-> "q2_focus", phase |-> "core", text |-> "What are you working on right now?"],
       [id |-> "q3_style", phase |-> "core", text |-> "How do you like to work with AI?"],
       [id |-> "q4_other", phase |-> "core", text |-> "Anything else I should know about you?"] >>

createInterviewState ==
    [ id                |-> "session",
      status            |-> "not_started",
      startedAt         |-> 0,
      completedAt       |-> None,
      coreExchanges     |-> <<>>,
      branchExchanges   |-> <<>>,
      suggestedBranches |-> None,
      allFacts          |-> <<>>,
      summary           |-> None ]

getNextCoreQuestion(s) ==
    LET answeredCount == Len(s.coreExchanges) IN
    IF answeredCount >= Len(CORE_QUESTIONS)
    THEN None
    ELSE Some(CORE_QUESTIONS[answeredCount + 1])

getTotalFacts(s) == Len(s.allFacts)

getInterviewDuration(s, t) ==
    LET end == IF s.completedAt # None THEN s.completedAt[1] ELSE t IN
    end - s.startedAt

----------------------------------------------------------------------------
(* extractor.ts *)

MinAnswerLength == 10

Categories == {"core", "expertise", "preference", "context", "focus"}
Visibilities == {"public", "trusted", "local"}

validateCategory(category) ==
    IF category \in Categories THEN category ELSE "context"

validateVisibility(visibility) ==
    IF visibility \in Visibilities THEN visibility ELSE "trusted"

\* Math.max(0, Math.min(1, c)), in hundredths
clampConfidence(c) == Max(0, Min(100, c))

\* answer.trim().length of the answer texts in use
TrimLength(answer) == IF answer = "ok" THEN 2 ELSE 17

\* What the completion service may send back for an extraction prompt about
\* question q: a transport/HTTP failure, an empty body, text that is not JSON,
\* or a JSON array of facts.  The array is not trusted: categories,
\* visibilities and confidences outside their ranges occur.
ParsedFacts(q) ==
    IF q.id = "q3_style"
    THEN << [category |-> "preference", content |-> "Prefers concise answers",
             confidence |-> 80, visibility |-> "public", evidence |-> q.id],
            [category |-> "hobby", content |-> "Plays chess",
             confidence |-> 150, visibility |-> "secret", evidence |-> q.id] >>
    ELSE IF q.phase = "core"
    THEN << [category |-> "core", content |-> q.text,
             confidence |-> 100, visibility |-> "public", evidence |-> q.id] >>
    ELSE << [category |-> "expertise", content |-> q.text,
             confidence |-> 0 - 10, visibility |-> "trusted", evidence |-> q.id] >>

ExtractionReplies(q) ==
    { [kind |-> "http_error", parsed |-> <<>>],
      [kind |-> "empty",      parsed |-> <<>>],
      [kind |-> "malformed",  parsed |-> <<>>],
      [kind |-> "ok",         parsed |-> ParsedFacts(q)] }

\* extractFacts: the facts of the ExtractionResult (its error string is only
\* logged by the caller)
extractFacts(question, answer, previousFacts, reply) ==
    IF TrimLength(answer) < MinAnswerLength
    THEN <<>>
    ELSE IF reply.kind # "ok"
    THEN <<>>
    ELSE [i \in 1..Len(reply.parsed) |->
            [category   |-> validateCategory(reply.parsed[i].category),
             content    |-> reply.parsed[i].content,
             confidence |-> clampConfidence(reply.parsed[i].confidence),
             visibility |-> validateVisibility(reply.parsed[i].visibility),
             evidence   |-> reply.parsed[i].evidence]]

\* A text the engine composes or receives whole (a summary) is the sequence of
\* its phrases; the empty string is the empty sequence.
\*
\* The questions a branch-generation reply is made of.  The model's reply is
\* not trusted either: an id may be missing (it is then numbered by position)
\* and two questions may carry the same id.
BranchPool ==
    << [id |-> "b_stack", text |-> "Which stack?"],
       [id |-> "",        text |-> "Which team?"],
       [id |-> "b_stack", text |-> "Why that stack?"],
       [id |-> "b_goal",  text |-> "What is the goal?"],
       [id |-> "b_team",  text |-> "How large is the team?"] >>

BranchId(i) ==
    CASE i = 1 -> "branch_1" [] i = 2 -> "branch_2" [] i = 3 -> "branch_3"
      [] i = 4 -> "branch_4" [] i = 5 -> "branch_5" [] OTHER -> "branch_n"

BranchReplies ==
    { [kind |-> "http_error", summary |-> <<>>, questions |-> <<>>],
      [kind |-> "empty",      summary |-> <<>>, questions |-> <<>>],
      [kind |-> "malformed",  summary |-> <<>>, questions |-> <<>>],
      [kind |-> "ok",         summary |-> <<>>, questions |-> SubSeq(BranchPool, 1, 2)] }
    \cup
    { [kind |-> "ok", summary |-> <<"You build compilers.">>,
       questions |-> SubSeq(BranchPool, 1, n)] :
         n \in 0..Min(MaxBranchReply, Len(BranchPool)) }

\* generateBranchQuestions: the BranchingResult without its error string
generateBranchQuestions(s, reply) ==
    IF reply.kind # "ok"
    THEN [summary |-> <<>>, questions |-> <<>>]
    ELSE [summary   |-> reply.summary,
          questions |-> [i \in 1..Len(reply.questions) |->
                           [id    |-> IF reply.questions[i].id # ""
                                      THEN reply.questions[i].id
                                      ELSE BranchId(i),
                            phase |-> "branching",
                            text  |-> reply.questions[i].text]]]

\* generateFactsSummary: one phrase per part of the sentence, each followed by
\* the fact contents it quotes (the core facts, at most 4 expertise facts, the
\* first focus fact and the first preference fact)
ContentsOf(facts, category) ==
    LET sel == SelectSeq(facts, LAMBDA f : f.category = category) IN
    [i \in 1..Len(sel) |-> sel[i].content]

generateFactsSummary(facts) ==
    IF Len(facts) = 0
    THEN << "I haven't learned much yet." >>
    ELSE LET core      == ContentsOf(facts, "core")
             expertise == SliceFirst(ContentsOf(facts, "expertise"), 4)
             focus     == ContentsOf(facts, "focus")
             prefs     == ContentsOf(facts, "preference")
         IN  (IF Len(core) > 0 THEN << "You're a" >> \o core ELSE <<>>)
             \o (IF Len(expertise) > 0
                 THEN << "with expertise in" >> \o expertise ELSE <<>>)
             \o (IF Len(focus) > 0
                 THEN << "currently focused on", focus[1] >> ELSE <<>>)
             \o (IF Len(prefs) > 0
                 THEN << "You prefer", prefs[1] >> ELSE <<>>)

----------------------------------------------------------------------------
(* conductor.ts: InterviewConductor *)

maxBranchQuestions == 3

\* The ids of the branch questions already answered
AnsweredIds(s) == { s.branchExchanges[i].question.id : i \in 1..Len(s.branchExchanges) }

\* suggestedBranches?.filter(q => !answered.has(q.id)); undefined stays undefined
RemainingBranches(s) ==
    IF s.suggestedBranches = None
    THEN None
    ELSE Some(SelectSeq(s.suggestedBranches[1],
                        LAMBDA q : q.id \notin AnsweredIds(s)))

\* Fault: every status but in_progress is looked up in the branch queue, so a
\* question counts as pending while the branch decision is awaited
getCurrentQuestion_AnyStatusBranches(s) ==
    IF s.status = "in_progress"
    THEN getNextCoreQuestion(s)
    ELSE LET remaining == RemainingBranches(s) IN
         IF remaining # None /\ Len(remaining[1]) > 0
         THEN Some(remaining[1][1])
         ELSE None

getCurrentQuestion(s) ==
    IF s.status = "in_progress"
    THEN getNextCoreQuestion(s)
    ELSE IF s.status = "branching"
    THEN LET remaining == RemainingBranches(s) IN
         IF remaining # None /\ Len(remaining[1]) > 0
         THEN Some(remaining[1][1])
         ELSE None
    ELSE None

\* Fault: questionsAnswered counts the core exchanges plus the queued branch
\* questions instead of the exchanges recorded
buildOutput_CountsQueue(s, t) ==
    LET all == s.coreExchanges \o s.branchExchanges
        rawExchanges ==
            [i \in 1..Len(all) |->
                [question       |-> all[i].question.text,
                 answer         |-> all[i].answer,
                 extractedFacts |-> [j \in 1..Len(all[i].extractedFacts) |->
                                        all[i].extractedFacts[j].content]]]
    IN  [ rawExchanges |-> rawExchanges,
          metadata     |->
            [ interviewDurationMs |-> getInterviewDuration(s, t),
              questionsAnswered   |-> Len(s.coreExchanges)
                                        + Len(OrElse(s.suggestedBranches, <<>>)),
              factsExtracted      |-> getTotalFacts(s),
              branchingUsed       |-> Len(s.branchExchanges) > 0 ] ]

buildOutput(s, t) ==
    LET all == s.coreExchanges \o s.branchExchanges
        rawExchanges ==
            [i \in 1..Len(all) |->
                [question       |-> all[i].question.text,
                 answer         |-> all[i].answer,
                 extractedFacts |-> [j \in 1..Len(all[i].extractedFacts) |->
                                        all[i].extractedFacts[j].content]]]
    IN  [ rawExchanges |-> rawExchanges,
          metadata     |->
            [ interviewDurationMs |-> getInterviewDuration(s, t),
              questionsAnswered   |-> Len(rawExchanges),
              factsExtracted      |-> getTotalFacts(s),
              branchingUsed       |-> Len(s.branchExchanges) > 0 ] ]

\* complete(): t is the reading of the clock
complete(s, t) ==
    LET s1 == [s EXCEPT !.status = "completed", !.completedAt = Some(t)] IN
    [ state    |-> s1,
      response |-> [type |-> "complete", output |-> buildOutput(s1, t),
                    newFacts |-> <<>>],
      calls    |-> <<>> ]

\* offerBranching() up to its await: the status is set, then the generator
\* is called
offerBranchingBegin(s) == [s EXCEPT !.status = "awaiting_branch_decision"]

\* offerBranching() from its await on: s is the state found when the
\* generator returns, reply what the completion service answered
offerBranchingResume(s, reply) ==
    LET branching == generateBranchQuestions(s, reply)
        summary == IF branching.summary # <<>>
                   THEN branching.summary
                   ELSE generateFactsSummary(s.allFacts)
        s2 == [s EXCEPT !.suggestedBranches = Some(branching.questions),
                        !.summary = Some(summary)]
    IN  [ state    |-> s2,
          response |-> [type |-> "offer_branching", summary |-> summary,
                        suggestions |-> branching.questions,
                        newFacts |-> SliceLast(s2.allFacts, 5)],
          calls    |-> << "generateBranchQuestions" >> ]

\* offerBranching() awaited with nothing else running in between
offerBranching(s, reply) == offerBranchingResume(offerBranchingBegin(s), reply)

\* determineNextStep() gets to offerBranching()
OffersBranching(s) == getNextCoreQuestion(s) = None /\ s.status # "branching"

\* Fault: the status is not consulted once the core questions are answered,
\* so branching is offered again after every branch answer
determineNextStep_AlwaysOffers(s, reply, t) ==
    LET newFacts == SliceLast(s.allFacts, 10)
        nextCore == getNextCoreQuestion(s)
    IN  IF nextCore # None
        THEN [ state |-> s,
               response |-> [type |-> "ask_question", question |-> nextCore[1],
                             newFacts |-> newFacts],
               calls |-> <<>> ]
        ELSE offerBranching(s, reply)

determineNextStep(s, reply, t) ==
    LET newFacts == SliceLast(s.allFacts, 10)
        nextCore == getNextCoreQuestion(s)
    IN  IF nextCore # None
        THEN [ state |-> s,
               response |-> [type |-> "ask_question", question |-> nextCore[1],
                             newFacts |-> newFacts],
               calls |-> <<>> ]
        ELSE IF s.status = "branching"
        THEN LET remaining == RemainingBranches(s) IN
             IF remaining # None /\ Len(remaining[1]) > 0
             THEN [ state |-> s,
                    response |-> [type |-> "ask_question",
                                  question |-> remaining[1][1],
                                  newFacts |-> newFacts],
                    calls |-> <<>> ]
             ELSE complete(s, t)
        ELSE offerBranching(s, reply)

NoQuestionPending == [type |-> "error", message |-> "No question pending"]

\* Fault: the new facts are put in front of allFacts (unshift for push)
recordExchange_FactsInFront(s, currentQuestion, answer, facts, reply, t) ==
    LET exchange == [question |-> currentQuestion, answer |-> answer,
                     extractedFacts |-> facts]
        s1 == IF currentQuestion.phase = "core"
              THEN [s EXCEPT !.coreExchanges = Append(@, exchange)]
              ELSE [s EXCEPT !.branchExchanges = Append(@, exchange)]
        s2 == [s1 EXCEPT !.allFacts = facts \o @]
    IN  determineNextStep(s2, reply, t)

\* The exchange is put on the list of its question's phase and its facts on
\* allFacts
pushExchange(s, currentQuestion, answer, facts) ==
    LET exchange == [question |-> currentQuestion, answer |-> answer,
                     extractedFacts |-> facts]
        s1 == IF currentQuestion.phase = "core"
              THEN [s EXCEPT !.coreExchanges = Append(@, exchange)]
              ELSE [s EXCEPT !.branchExchanges = Append(@, exchange)]
    IN  [s1 EXCEPT !.allFacts = @ \o facts]

\* answer() from the return of extractFacts on: record the exchange against
\* the question the call found pending, accumulate the facts, determine the
\* next step
recordExchange(s, currentQuestion, answer, facts, reply, t) ==
    determineNextStep(pushExchange(s, currentQuestion, answer, facts), reply, t)

start(s) ==
    [ state    |-> [s EXCEPT !.status = "in_progress"],
      response |-> [type |-> "ask_question", question |-> CORE_QUESTIONS[1],
                    newFacts |-> <<>>],
      calls    |-> <<>> ]

\* The calls to the completion service that extractFacts makes: none for an
\* answer shorter than the minimum, one otherwise
extractFactsCalls(a) ==
    IF TrimLength(a) < MinAnswerLength THEN <<>> ELSE << "extractFacts" >>

\* Fault: an extraction that reports an error is raised to the caller and the
\* exchange is not recorded
answer_ExtractionFatal(s, a, ereply, breply, t) ==
    LET currentQuestion == getCurrentQuestion(s) IN
    IF currentQuestion = None
    THEN [state |-> s, response |-> NoQuestionPending, calls |-> <<>>]
    ELSE IF TrimLength(a) >= MinAnswerLength /\ ereply.kind # "ok"
    THEN [state |-> s,
          response |-> [type |-> "error", message |-> "Extraction failed"],
          calls |-> extractFactsCalls(a)]
    ELSE LET r == recordExchange(s, currentQuestion[1], a,
                     extractFacts(currentQuestion[1], a, s.allFacts, ereply),
                     breply, t)
         IN  [r EXCEPT !.calls = extractFactsCalls(a) \o @]

\* answer(answer): ereply and breply are the service's replies to the
\* extraction call and (when one is made) to the branch-generation call
answer(s, a, ereply, breply, t) ==
    LET currentQuestion == getCurrentQuestion(s) IN
    IF currentQuestion = None
    THEN [state |-> s, response |-> NoQuestionPending, calls |-> <<>>]
    ELSE LET r == recordExchange(s, currentQuestion[1], a,
                     extractFacts(currentQuestion[1], a, s.allFacts, ereply),
                     breply, t)
         IN  [r EXCEPT !.calls = extractFactsCalls(a) \o @]

\* Fault: the fast path records the exchange with the facts supplied but does
\* not accumulate them in allFacts
answerWithFacts_NotAccumulated(s, a, facts, breply, t) ==
    LET currentQuestion == getCurrentQuestion(s) IN
    IF currentQuestion = None
    THEN [state |-> s, response |-> NoQuestionPending, calls |-> <<>>]
    ELSE LET exchange == [question |-> currentQuestion[1], answer |-> a,
                          extractedFacts |-> facts]
             s1 == IF currentQuestion[1].phase = "core"
                   THEN [s EXCEPT !.coreExchanges = Append(@, exchange)]
                   ELSE [s EXCEPT !.branchExchanges = Append(@, exchange)]
         IN  determineNextStep(s1, breply, t)

\* answerWithFacts(answer, facts): the method repeats the body of answer with
\* the facts handed in and makes no extraction call
answerWithFacts(s, a, facts, breply, t) ==
    LET currentQuestion == getCurrentQuestion(s) IN
    IF currentQuestion = None
    THEN [state |-> s, response |-> NoQuestionPending, calls |-> <<>>]
    ELSE LET exchange == [question |-> currentQuestion[1], answer |-> a,
                          extractedFacts |-> facts]
             s1 == IF currentQuestion[1].phase = "core"
                   THEN [s EXCEPT !.coreExchanges = Append(@, exchange)]
                   ELSE [s EXCEPT !.branchExchanges = Append(@, exchange)]
             s2 == [s1 EXCEPT !.allFacts = @ \o facts]
         IN  determineNextStep(s2, breply, t)

\* Array.prototype.includes
Includes(list, x) == \E i \in 1..Len(list) : list[i] = x

\* The decisions a caller may take; selectedQuestions is optional
Selections ==
    { None, Some(<<>>), Some(<< "b_stack" >>), Some(<< "b_goal", "b_stack" >>),
      Some(<< "b_unknown" >>) }

Decisions ==
    { [type |-> "done", selectedQuestions |-> None] }
    \cup { [type |-> "continue", selectedQuestions |-> sel] : sel \in Selections }

\* Fault: the list is not limited to maxBranchQuestions
decideBranching_Unlimited(s, decision, t) ==
    IF decision.type = "done"
    THEN complete(s, t)
    ELSE LET s1 == [s EXCEPT !.status = "branching"]
             suggested == OrElse(s1.suggestedBranches, <<>>)
             selected == decision.selectedQuestions
             questionsToAsk ==
                 IF selected # None /\ Len(selected[1]) > 0
                 THEN SelectSeq(suggested, LAMBDA q : Includes(selected[1], q.id))
                 ELSE suggested
         IN  IF Len(questionsToAsk) = 0
             THEN complete(s1, t)
             ELSE [ state    |-> [s1 EXCEPT !.suggestedBranches = Some(questionsToAsk)],
                    response |-> [type |-> "ask_question",
                                  question |-> questionsToAsk[1],
                                  newFacts |-> <<>>],
                    calls |-> <<>> ]

decideBranching(s, decision, t) ==
    IF decision.type = "done"
    THEN complete(s, t)
    ELSE LET s1 == [s EXCEPT !.status = "branching"]
             suggested == OrElse(s1.suggestedBranches, <<>>)
             selected == decision.selectedQuestions
             filtered ==
                 IF selected # None /\ Len(selected[1]) > 0
                 THEN SelectSeq(suggested, LAMBDA q : Includes(selected[1], q.id))
                 ELSE suggested
             questionsToAsk == SliceFirst(filtered, maxBranchQuestions)
         IN  IF Len(questionsToAsk) = 0
             THEN complete(s1, t)
             ELSE [ state    |-> [s1 EXCEPT !.suggestedBranches = Some(questionsToAsk)],
                    response |-> [type |-> "ask_question",
                                  question |-> questionsToAsk[1],
                                  newFacts |-> <<>>],
                    calls |-> <<>> ]

\* Fault: the exchanges and facts are copied into the fresh state, the branch
\* queue is not
restoreState_WithoutQueue(s, restored) ==
    [restored EXCEPT !.suggestedBranches = s.suggestedBranches]

\* restoreState(state): s is the state the Conductor held, restored the one
\* handed in
restoreState(s, restored) == restored

----------------------------------------------------------------------------
(* Persistence between turns: saveInterviewState / loadInterviewState *)

StateKeys ==
    { "id", "status", "startedAt", "completedAt", "coreExchanges",
      "branchExchanges", "suggestedBranches", "allFacts", "summary" }
OptionalKeys == { "completedAt", "suggestedBranches", "summary" }

\* JSON.stringify(state): the document has a member for every property whose
\* value is not undefined
JSONstringify(s) ==
    [ k \in (StateKeys \ OptionalKeys) \cup { o \in OptionalKeys : s[o] # None }
        |-> IF k \in OptionalKeys THEN s[k][1] ELSE s[k] ]

\* JSON.parse(data) as InterviewState: a property the document lacks reads as
\* undefined
JSONparse(doc) ==
    [ k \in StateKeys |->
        IF k \in OptionalKeys
        THEN (IF k \in DOMAIN doc THEN Some(doc[k]) ELSE None)
        ELSE doc[k] ]

saveInterviewState(s) == JSONstringify(s)
loadInterviewState(file) == JSONparse(file)

----------------------------------------------------------------------------------------------------------------------------------------------------
(* The state machine *)

NoCall == [op |-> "none"]
NoResponse == [type |-> "none"]
NoScore == [op |-> "none"]
NoMerge == [op |-> "none"]
NoOutput == [op |-> "none"]
\* No context.json yet, no event created, no call made
NoContextFile == [file |-> <<>>, created |-> 0, output |-> [op |-> "none"]]
NoResult == [thrown |-> None, success |-> FALSE, phase |-> "none",
             error |-> None, nextAction |-> "none"]

\* A reading of the clock: time has passed since the last reading, or not
ClockReadings == now .. Min(now + 1, MaxNow)

\* The answer texts a caller gives
Answers == { "I build compilers" }

\* The facts a caller of the fast path supplies for question q: none, or the
\* facts the slow path would have extracted
SuppliedFacts(q) ==
    { <<>>,
      extractFacts(q, "I build compilers", <<>>,
                   [kind |-> "ok", parsed |-> ParsedFacts(q)]) }

Init ==
    /\ state = createInterviewState
    /\ call = NoCall
    /\ response = NoResponse
    /\ now = 0
    /\ generatorCalls = 0
    /\ activeInterviews = EmptyMap
    /\ interviewStateFile = None
    /\ identityFile = None
    /\ cloudIdentity = None
    /\ result = NoResult
    /\ sessions = 0
    /\ tasks = <<>>
    /\ scored = NoScore
    /\ merged = NoMerge
    /\ converted = NoOutput
    /\ contextStore = NoContextFile

\* How often the call named is among the calls made
Count(calls, name) == Len(SelectSeq(calls, LAMBDA c : c = name))

\* The call c returns r; t is the reading of the clock it made if it
\* completed the session
Returns(c, r, t) ==
    /\ r.response.type # "complete" => t = now
    /\ state' = r.state
    /\ call' = c
    /\ response' = r.response
    /\ now' = t
    /\ generatorCalls' =
         Min(MaxCalls, generatorCalls + Count(r.calls, "generateBranchQuestions"))
    /\ UNCHANGED <<handlerVars, tasks, mergeVars, outputVars>>

AnswerCall(a, ereply, breply) ==
    \E t \in ClockReadings :
      Returns([op |-> "answer"], answer(state, a, ereply, breply, t), t)

AnswerWithFactsCall(a, facts, breply) ==
    \E t \in ClockReadings :
      Returns([op |-> "answerWithFacts"],
              answerWithFacts(state, a, facts, breply, t), t)

DecideBranchingCall(decision) ==
    \E t \in ClockReadings :
      Returns([op |-> "decideBranching", decision |-> decision],
              decideBranching(state, decision, t), t)

\* The replies the completion service can give to the calls an answer makes:
\* an extraction call is made when a question is pending, a branch-generation
\* call when the answer is the one that ends the core questions
NoReply == [kind |-> "http_error", parsed |-> <<>>]
NoBranchReply == [kind |-> "http_error", summary |-> <<>>, questions |-> <<>>]

ExtractionRepliesIn(s) ==
    LET cur == getCurrentQuestion(s) IN
    IF cur = None THEN { NoReply } ELSE ExtractionReplies(cur[1])

SuppliedFactsIn(s) ==
    LET cur == getCurrentQuestion(s) IN
    IF cur = None THEN { <<>> } ELSE SuppliedFacts(cur[1])

BranchRepliesIn(s) ==
    IF s.status = "in_progress" /\ Len(s.coreExchanges) + 1 = Len(CORE_QUESTIONS)
    THEN BranchReplies
    ELSE { NoBranchReply }

Start == Returns([op |-> "start"], start(state), now)

Answer ==
    \E a \in Answers, ereply \in ExtractionRepliesIn(state),
       breply \in BranchRepliesIn(state) :
      AnswerCall(a, ereply, breply)

AnswerWithFacts ==
    \E a \in Answers, facts \in SuppliedFactsIn(state),
       breply \in BranchRepliesIn(state) :
      AnswerWithFactsCall(a, facts, breply)

DecideBranching == \E decision \in Decisions : DecideBranchingCall(decision)

\* A process restart between two turns: the state last saved is loaded into
\* a fresh Conductor
Resume ==
    /\ state' = restoreState(createInterviewState,
                             loadInterviewState(saveInterviewState(state)))
    /\ call' = [op |-> "restoreState"]
    /\ response' = NoResponse
    /\ now' = now
    /\ generatorCalls' = generatorCalls
    /\ UNCHANGED <<handlerVars, tasks, mergeVars, outputVars>>

Next == Start \/ Answer \/ AnswerWithFacts \/ DecideBranching \/ Resume

Spec == Init /\ [][Next]_vars

----------------------------------------------------------------------------
(* arete_onboard: onboardHandler and its state *)

\* crypto.randomUUID(): the ids drawn, in order.  The last one is the id of
\* the Conductors made only to be restored into; it is never a session's.
SessionIds == << "session-1", "discarded" >>

\* new InterviewConductor(apiKey): its state has a fresh id and the time of
\* construction
NewConductorState(id, t) ==
    [createInterviewState EXCEPT !.id = id, !.startedAt = t]

\* formatResult(output).structuredContent, and a call that threw
Result(success, phase, error, nextAction) ==
    [thrown |-> None, success |-> success, phase |-> phase, error |-> error,
     nextAction |-> nextAction]
Thrown(message) ==
    [thrown |-> Some(message), success |-> FALSE, phase |-> "none",
     error |-> None, nextAction |-> "none"]

\* The IdentityV2 document built from the output.  It is kept as the output
\* it was built from and the one property of its fact list the handler reads:
\* the list is never empty, since preferences.responseLength is always set
\* and always yields a fact, and the duplicate pass keeps the first fact.
IdentityDocument(output) ==
    [version |-> "2.0.0", builtFrom |-> output, hasFacts |-> TRUE]

\* loadExistingIdentity() && existingIdentity.facts.length > 0
HasIdentity(file) ==
    file # None /\ file[1].version = "2.0.0" /\ file[1].hasFacts

\* The handler's state as one record; completion is what the call's
\* handleCompletion met when it persisted the identity, if it ran
HandlerState ==
    [activeInterviews |-> activeInterviews,
     interviewStateFile |-> interviewStateFile,
     identityFile |-> identityFile,
     cloudIdentity |-> cloudIdentity,
     result |-> result,
     completion |-> None]

\* Fault: the interview state is cleared before the identity is written
handleCompletion_ClearsFirst(h, output, env) ==
    LET identity == IdentityDocument(output)
        met == Some([localWrite |-> env.localWrite, sync |-> env.sync])
    IN  IF env.localWrite = "fails"
        THEN [h EXCEPT !.interviewStateFile = None,
                       !.result = Thrown("EACCES: permission denied"),
                       !.completion = met]
        ELSE IF env.crash
        THEN [h EXCEPT !.interviewStateFile = None, !.completion = met]
        ELSE [h EXCEPT !.identityFile = Some(identity),
                       !.interviewStateFile = None,
                       !.cloudIdentity = IF env.sync = "ok" THEN Some(identity)
                                         ELSE @,
                       !.result = Result(TRUE, "complete", None, "complete"),
                       !.completion = met]

\* handleCompletion(output, state): env.localWrite says whether writing
\* identity.json succeeds, env.sync whether a cloud is configured and the save
\* to it succeeds.  A failed write throws out of the handler; a failed sync is
\* caught and logged.  env.crash says that the process dies between
\* saveIdentity and clearInterviewState.
handleCompletion(h, output, env) ==
    LET identity == IdentityDocument(output)
        met == Some([localWrite |-> env.localWrite, sync |-> env.sync])
    IN  IF env.localWrite = "fails"
        THEN [h EXCEPT !.result = Thrown("EACCES: permission denied"),
                       !.completion = met]
        ELSE IF env.crash
        THEN [h EXCEPT !.identityFile = Some(identity), !.completion = met]
        ELSE [h EXCEPT !.identityFile = Some(identity),
                       !.interviewStateFile = None,
                       !.cloudIdentity = IF env.sync = "ok" THEN Some(identity)
                                         ELSE @,
                       !.result = Result(TRUE, "complete", None, "complete"),
                       !.completion = met]

\* mode: "status"
statusMode(h) ==
    IF HasIdentity(h.identityFile)
    THEN [h EXCEPT !.result = Result(TRUE, "complete", None, "complete")]
    ELSE IF h.interviewStateFile # None
    THEN [h EXCEPT !.result = Result(TRUE, "questioning", None, "answer")]
    ELSE [h EXCEPT !.result = Result(TRUE, "starting", None, "start")]

MissingApiKey ==
    Result(FALSE, "error",
           Some("ANTHROPIC_API_KEY not set. Cannot conduct interview."), "start")

\* mode: "start"; id is the id the new session draws, t the time
startMode(h, id, t) ==
    IF HasIdentity(h.identityFile)
    THEN [h EXCEPT !.result = Result(TRUE, "complete", None, "complete")]
    ELSE LET r == start(NewConductorState(id, t)) IN
         [h EXCEPT !.interviewStateFile = Some(saveInterviewState(r.state)),
                   !.activeInterviews = MapSet(@, r.state.id, r.state),
                   !.result = IF r.response.type = "ask_question"
                              THEN Result(TRUE, "questioning", None, "answer")
                              ELSE Result(FALSE, "error",
                                          Some("Unexpected state after start"),
                                          "start")]

\* Fault: a Conductor that is not registered is created but the saved state
\* is not restored into it
getOrRestore_Fresh(m, savedState, t) ==
    IF savedState.id \in DOMAIN m
    THEN m
    ELSE MapSet(m, savedState.id, NewConductorState(savedState.id, t))

\* "Get or restore conductor": the map after the lookup by the saved state's
\* id, with a Conductor restored from the saved state if none was registered
getOrRestore(m, savedState, t) ==
    IF savedState.id \in DOMAIN m
    THEN m
    ELSE MapSet(m, savedState.id,
                restoreState(NewConductorState(Last(SessionIds), t), savedState))

\* input.extractedFacts.map(...): the fast path's facts
FastPathFacts(extractedFacts) ==
    [i \in 1..Len(extractedFacts) |->
        [category   |-> extractedFacts[i].category,
         content    |-> extractedFacts[i].content,
         confidence |-> OrElse(extractedFacts[i].confidence, 80),
         visibility |-> OrElse(extractedFacts[i].visibility, "trusted"),
         evidence   |-> "Extracted by host LLM"]]

\* What the handler does with the Conductor's response r, the Conductor being
\* the one registered under id in the map m
afterResponse(h, m, id, r, env) ==
    IF r.response.type = "error"
    THEN [h EXCEPT !.activeInterviews = m,
                   !.result = Thrown(r.response.message)]
    ELSE LET h1 == [h EXCEPT !.activeInterviews = MapSet(m, id, r.state),
                             !.interviewStateFile =
                                 Some(saveInterviewState(r.state))]
         IN  IF r.response.type = "ask_question"
             THEN [h1 EXCEPT !.result =
                                 Result(TRUE, "questioning", None, "answer")]
             ELSE IF r.response.type = "offer_branching"
             THEN [h1 EXCEPT !.result =
                                 Result(TRUE, "branching", None, "branch")]
             ELSE handleCompletion(h1, r.response.output, env)

\* mode: "answer"
answerMode(h, input, env, t) ==
    IF input.answer = None
    THEN [h EXCEPT !.result = Result(FALSE, "error",
                                     Some("No answer provided"), "answer")]
    ELSE IF h.interviewStateFile = None
    THEN [h EXCEPT !.result =
              Result(FALSE, "error",
                     Some("No active interview. Start one first."), "start")]
    ELSE LET savedState == loadInterviewState(h.interviewStateFile[1])
             m == getOrRestore(h.activeInterviews, savedState, t)
             conductor == m[savedState.id]
             r == IF input.extractedFacts # None
                     /\ Len(input.extractedFacts[1]) > 0
                  THEN answerWithFacts(conductor, input.answer[1],
                                       FastPathFacts(input.extractedFacts[1]),
                                       env.breply, t)
                  ELSE answer(conductor, input.answer[1], env.ereply,
                              env.breply, t)
         IN  afterResponse(h, m, savedState.id, r, env)

\* mode: "branch"
branchMode(h, input, env, t) ==
    IF h.interviewStateFile = None
    THEN [h EXCEPT !.result = Result(FALSE, "error",
                                     Some("No active interview"), "start")]
    ELSE LET savedState == loadInterviewState(h.interviewStateFile[1])
             m == getOrRestore(h.activeInterviews, savedState, t)
             activeConductor == m[savedState.id]
             decision ==
                 IF input.branchDecision = Some("continue")
                 THEN [type |-> "continue",
                       selectedQuestions |-> input.selectedQuestions]
                 ELSE [type |-> "done", selectedQuestions |-> None]
             r == decideBranching(activeConductor, decision, t)
         IN  IF r.response.type = "offer_branching"
             THEN [h EXCEPT !.activeInterviews = MapSet(m, savedState.id, r.state),
                            !.interviewStateFile =
                                Some(saveInterviewState(r.state)),
                            !.result =
                                Result(FALSE, "error",
                                       Some("Unexpected response after branch decision"),
                                       "start")]
             ELSE afterResponse(h, m, savedState.id, r, env)

\* onboardHandler(input)
onboardHandler(h, input, env, id, t) ==
    IF input.mode = "status" THEN statusMode(h)
    ELSE IF env.apiKey = None THEN [h EXCEPT !.result = MissingApiKey]
    ELSE IF input.mode = "start" THEN startMode(h, id, t)
    ELSE IF input.mode = "answer" THEN answerMode(h, input, env, t)
    ELSE branchMode(h, input, env, t)

\* The inputs and the environment of a handler call
HostFacts ==
    << [category |-> "expertise", content |-> "Compilers",
        confidence |-> Some(150), visibility |-> None],
       [category |-> "core", content |-> "Engineer",
        confidence |-> None, visibility |-> Some("public")],
       [category |-> "focus", content |-> "A borrow checker",
        confidence |-> Some(0 - 20), visibility |-> None] >>

BranchInputs ==
    { [mode |-> "branch", branchDecision |-> None, selectedQuestions |-> None],
      [mode |-> "branch", branchDecision |-> Some("done"),
       selectedQuestions |-> None],
      [mode |-> "branch", branchDecision |-> Some("continue"),
       selectedQuestions |-> None],
      [mode |-> "branch", branchDecision |-> Some("continue"),
       selectedQuestions |-> Some(<< "b_stack" >>)] }
LocalWrites == { "ok", "fails" }
Syncs == { "not_configured", "ok", "fails" }

\* The state of the Conductor a call with mode answer or branch will use
ConductorInUse ==
    IF interviewStateFile = None THEN createInterviewState
    ELSE LET savedState == loadInterviewState(interviewStateFile[1]) IN
         getOrRestore(activeInterviews, savedState, now)[savedState.id]

\* The answers of a session that have brought facts so far
FactAnswers(s) ==
    Len(SelectSeq(s.coreExchanges \o s.branchExchanges,
                  LAMBDA e : Len(e.extractedFacts) > 0))

\* What an answer call may meet: an extraction that fails, and, while the
\* session has had fewer than MaxFactAnswers answers with facts, an
\* extraction that succeeds or facts extracted by the host
HandlerExtractions(s) ==
    LET cur == getCurrentQuestion(s) IN
    { [facts |-> None, ereply |-> NoReply] }
    \cup (IF cur # None /\ FactAnswers(s) < MaxFactAnswers
          THEN { [facts |-> None,
                  ereply |-> [kind |-> "ok", parsed |-> ParsedFacts(cur[1])]],
                 [facts |-> Some(<<>>),
                  ereply |-> [kind |-> "ok", parsed |-> ParsedFacts(cur[1])]],
                 [facts |-> Some(HostFacts), ereply |-> NoReply] }
          ELSE {})

HandlerBranchReplies(s) ==
    IF s.status = "in_progress" /\ Len(s.coreExchanges) + 1 = Len(CORE_QUESTIONS)
    THEN { NoBranchReply,
           [kind |-> "ok", summary |-> << "You build compilers." >>,
            questions |-> SubSeq(BranchPool, 1, 2)] }
    ELSE { NoBranchReply }

NoEnv == [apiKey |-> Some("sk-ant-key"), ereply |-> NoReply,
          breply |-> NoBranchReply, localWrite |-> "ok",
          sync |-> "not_configured", crash |-> FALSE]

\* One call of the handler, awaited to its end
HandlerCall(input, env) ==
    LET id == SessionIds[sessions + 1]
        h  == onboardHandler(HandlerState, input, env, id, now)
    IN  /\ activeInterviews' = h.activeInterviews
        /\ interviewStateFile' = h.interviewStateFile
        /\ identityFile' = h.identityFile
        /\ cloudIdentity' = h.cloudIdentity
        /\ result' = h.result
        /\ sessions' = IF id \in DOMAIN h.activeInterviews
                       THEN sessions + 1 ELSE sessions
        /\ call' = [op |-> "onboardHandler", mode |-> input.mode,
                    restored |-> (DOMAIN h.activeInterviews
                                    \ (DOMAIN activeInterviews \cup {id})) # {},
                    completion |-> h.completion]
        /\ UNCHANGED <<state, response, now, generatorCalls, tasks, mergeVars, outputVars>>

\* The outcomes of persisting the identity that a call may meet: they are
\* drawn only for a call that gets to handleCompletion
PersistenceOutcomes(input, env) ==
    IF onboardHandler(HandlerState, input, env, SessionIds[sessions + 1],
                      now).completion = None
    THEN { env }
    ELSE { [env EXCEPT !.localWrite = write, !.sync = sync] :
             write \in LocalWrites, sync \in Syncs }

HandlerStatus == HandlerCall([mode |-> "status"], NoEnv)

\* ANTHROPIC_API_KEY is not set
HandlerNoApiKey ==
    \E mode \in { "start", "answer", "branch" } :
      HandlerCall([mode |-> mode], [NoEnv EXCEPT !.apiKey = None])

\* a session is created while an id is left to draw
HandlerStart ==
    /\ ~HasIdentity(identityFile) => sessions + 1 < Len(SessionIds)
    /\ HandlerCall([mode |-> "start"], NoEnv)

HandlerAnswer ==
    \/ HandlerCall([mode |-> "answer", answer |-> None,
                    extractedFacts |-> None], NoEnv)
    \/ \E x \in HandlerExtractions(ConductorInUse),
          breply \in HandlerBranchReplies(ConductorInUse) :
         LET input == [mode |-> "answer",
                       answer |-> Some("I build compilers"),
                       extractedFacts |-> x.facts]
         IN  \E env \in PersistenceOutcomes(input,
                           [NoEnv EXCEPT !.ereply = x.ereply,
                                         !.breply = breply]) :
               HandlerCall(input, env)

HandlerBranch ==
    \E input \in BranchInputs :
      \E env \in PersistenceOutcomes(input, NoEnv) : HandlerCall(input, env)

\* The process restarts between two turns: the map is empty again, the files
\* stay
Restart ==
    /\ activeInterviews' = EmptyMap
    /\ call' = [op |-> "restart"]
    /\ result' = NoResult
    /\ UNCHANGED <<interviewStateFile, identityFile, cloudIdentity, sessions,
                   state, response, now, generatorCalls, tasks, mergeVars, outputVars>>

\* The process dies in handleCompletion after saveIdentity and before
\* clearInterviewState: the files are as the call left them, the map is gone
\* and no result is returned
CrashInputs ==
    { [input |-> [mode |-> "answer", answer |-> Some("I build compilers"),
                  extractedFacts |-> x.facts],
       env |-> [NoEnv EXCEPT !.ereply = x.ereply, !.breply = breply,
                             !.crash = TRUE]] :
        x \in HandlerExtractions(ConductorInUse),
        breply \in HandlerBranchReplies(ConductorInUse) }
    \cup { [input |-> input, env |-> [NoEnv EXCEPT !.crash = TRUE]] :
             input \in BranchInputs }

CrashAtCompletion ==
    \E c \in CrashInputs :
      LET h == onboardHandler(HandlerState, c.input, c.env,
                              SessionIds[sessions + 1], now)
      IN  /\ h.completion # None
          /\ activeInterviews' = EmptyMap
          /\ interviewStateFile' = h.interviewStateFile
          /\ identityFile' = h.identityFile
          /\ call' = [op |-> "crash"]
          /\ result' = NoResult
          /\ UNCHANGED <<cloudIdentity, sessions, state, response, now,
                         generatorCalls, tasks, mergeVars, outputVars>>

HandlerNext ==
    \/ HandlerStatus
    \/ HandlerNoApiKey
    \/ HandlerStart
    \/ HandlerAnswer
    \/ HandlerBranch
    \/ Restart
    \/ CrashAtCompletion

HandlerSpec == Init /\ [][HandlerNext]_vars

----------------------------------------------------------------------------
(* One Conductor whose calls interleave.  Its methods are async functions on
   a single-threaded event loop: a call runs without interruption up to an
   await of the completion service, and any other call may run before the
   awaited reply arrives.  answer() awaits extractFacts and, through
   determineNextStep() and offerBranching(), generateBranchQuestions;
   answerWithFacts() awaits only the latter; start() and decideBranching()
   await nothing.  Nothing in the Conductor or in onboardHandler keeps a
   second call from starting while one is at an await.  tasks holds the
   calls that are at an await, with the locals they resume with. *)

RemoveAt(s, i) == SubSeq(s, 1, i - 1) \o SubSeq(s, i + 1, Len(s))

\* A call at the await named pc; currentQuestion is what answer() read from
\* getCurrentQuestion() before it awaited
Task(op, pc, currentQuestion, a) ==
    [op |-> op, pc |-> pc, currentQuestion |-> currentQuestion, answer |-> a]

\* The calls that have a request to the completion service in flight:
\* extractFacts makes none for an answer shorter than MinAnswerLength
InFlight ==
    SelectSeq(tasks, LAMBDA task :
                \/ task.pc = "generateBranchQuestions"
                \/ TrimLength(task.answer) >= MinAnswerLength)

\* What the interleaved calls meet.  They bring no facts: the order and the
\* number of the exchanges recorded are the subject here, and an extraction
\* either fails or finds nothing to extract
AsyncExtractionReplies == { NoReply, [kind |-> "ok", parsed |-> <<>>] }

AsyncSuppliedFacts == { <<>> }

AsyncBranchReplies ==
    { NoBranchReply,
      [kind |-> "ok", summary |-> << "You build compilers." >>,
       questions |-> SubSeq(BranchPool, 1, 2)] }

AsyncDecisions ==
    { [type |-> "done", selectedQuestions |-> None],
      [type |-> "continue", selectedQuestions |-> None] }

\* A step of a call that leaves the interview as r says; the call returns
\* r.response unless it has reached another await
AsyncStep(c, r, left) ==
    /\ state' = r.state
    /\ call' = c
    /\ response' = r.response
    /\ tasks' = left
    /\ generatorCalls' =
         Min(MaxCalls, generatorCalls + Count(r.calls, "generateBranchQuestions"))
    /\ UNCHANGED <<now, handlerVars, mergeVars, outputVars>>

\* answer() and answerWithFacts() after the exchange of the call is known:
\* the exchange is recorded, then determineNextStep() either returns or
\* reaches the await in offerBranching(), which has set the status by then
AfterExchange(op, currentQuestion, a, facts, others) ==
    LET s2 == pushExchange(state, currentQuestion, a, facts) IN
    IF OffersBranching(s2)
    THEN /\ Len(others) < MaxInFlight
         /\ AsyncStep([op |-> op, at |-> "generateBranchQuestions"],
                      [state |-> offerBranchingBegin(s2), response |-> response,
                       calls |-> << "generateBranchQuestions" >>],
                      Append(others, Task(op, "generateBranchQuestions",
                                          currentQuestion, a)))
    ELSE AsyncStep([op |-> op, at |-> "returned"],
                   determineNextStep(s2, NoBranchReply, now), others)

\* start(): onboardHandler calls it once, on the Conductor it has just made
AsyncStart ==
    /\ call = NoCall
    /\ AsyncStep([op |-> "start", at |-> "returned"], start(state), tasks)

\* answer() up to its await of extractFacts
AsyncAnswer ==
    \E a \in Answers :
      LET currentQuestion == getCurrentQuestion(state) IN
      IF currentQuestion = None
      THEN AsyncStep([op |-> "answer", at |-> "returned"],
                     [state |-> state, response |-> NoQuestionPending,
                      calls |-> <<>>], tasks)
      ELSE /\ Len(tasks) < MaxInFlight
           /\ AsyncStep([op |-> "answer", at |-> "extractFacts"],
                        [state |-> state, response |-> response,
                         calls |-> extractFactsCalls(a)],
                        Append(tasks, Task("answer", "extractFacts",
                                           currentQuestion[1], a)))

\* extractFacts returns to the answer() that awaits it
ExtractionReturns ==
    \E i \in 1..Len(tasks) :
      /\ tasks[i].pc = "extractFacts"
      /\ \E ereply \in AsyncExtractionReplies :
           AfterExchange("answer", tasks[i].currentQuestion, tasks[i].answer,
                         extractFacts(tasks[i].currentQuestion, tasks[i].answer,
                                      state.allFacts, ereply),
                         RemoveAt(tasks, i))

AsyncAnswerWithFacts ==
    \E a \in Answers :
      LET currentQuestion == getCurrentQuestion(state) IN
      IF currentQuestion = None
      THEN AsyncStep([op |-> "answerWithFacts", at |-> "returned"],
                     [state |-> state, response |-> NoQuestionPending,
                      calls |-> <<>>], tasks)
      ELSE \E facts \in AsyncSuppliedFacts :
             AfterExchange("answerWithFacts", currentQuestion[1], a, facts, tasks)

\* generateBranchQuestions returns to the offerBranching() that awaits it
GeneratorReturns ==
    \E i \in 1..Len(tasks) :
      /\ tasks[i].pc = "generateBranchQuestions"
      /\ \E breply \in AsyncBranchReplies :
           LET r == offerBranchingResume(state, breply) IN
           AsyncStep([op |-> tasks[i].op, at |-> "returned"],
                     [r EXCEPT !.calls = <<>>], RemoveAt(tasks, i))

AsyncDecideBranching ==
    \E decision \in AsyncDecisions :
      AsyncStep([op |-> "decideBranching", at |-> "returned"],
                decideBranching(state, decision, now), tasks)

AsyncNext ==
    \/ AsyncStart
    \/ AsyncAnswer
    \/ ExtractionReturns
    \/ AsyncAnswerWithFacts
    \/ GeneratorReturns
    \/ AsyncDecideBranching

AsyncSpec == Init /\ [][AsyncNext]_vars

----------------------------------------------------------------------------
(* Strings of the consumption side.  A string is the sequence of its runs of
   equal characters, [c, n] for n times the character c, no two neighbours
   with the same character: "aa b" is <<[c "a", n 2], [c " ", n 1],
   [c "b", n 1]>>.  Length, case folding and splitting are computed on the
   runs as JavaScript computes them on the characters. *)

Run(c, n) == [c |-> c, n |-> n]

RECURSIVE Canon(_)
\* Neighbouring runs of one character are one run
Canon(runs) ==
    IF Len(runs) < 2 THEN runs
    ELSE LET rest == Canon(Tail(runs)) IN
         IF Head(runs).c = Head(rest).c
         THEN << Run(Head(runs).c, Head(runs).n + Head(rest).n) >> \o Tail(rest)
         ELSE << Head(runs) >> \o rest

RECURSIVE Length(_)
\* String.prototype.length
Length(str) == IF str = <<>> THEN 0 ELSE Head(str).n + Length(Tail(str))

\* The lower-case letter of each upper-case letter
LowerCase ==
    ("A" :> "a") @@ ("B" :> "b") @@ ("C" :> "c") @@ ("D" :> "d") @@ ("E" :> "e") @@
    ("F" :> "f") @@ ("G" :> "g") @@ ("H" :> "h") @@ ("I" :> "i") @@ ("J" :> "j") @@
    ("K" :> "k") @@ ("L" :> "l") @@ ("M" :> "m") @@ ("N" :> "n") @@ ("O" :> "o") @@
    ("P" :> "p") @@ ("Q" :> "q") @@ ("R" :> "r") @@ ("S" :> "s") @@ ("T" :> "t") @@
    ("U" :> "u") @@ ("V" :> "v") @@ ("W" :> "w") @@ ("X" :> "x") @@ ("Y" :> "y") @@
    ("Z" :> "z")

LowerOf(c) == IF c \in DOMAIN LowerCase THEN LowerCase[c] ELSE c

\* String.prototype.toLowerCase
toLowerCase(str) == Canon([i \in 1..Len(str) |-> Run(LowerOf(str[i].c), str[i].n)])

\* The characters /\s/ matches
IsSpace(c) == c \in { " ", "\t" }

RECURSIVE SkipSpaces(_)
SkipSpaces(runs) ==
    IF runs # <<>> /\ IsSpace(Head(runs).c) THEN SkipSpaces(Tail(runs)) ELSE runs

RECURSIVE SplitFrom(_, _)
\* The pieces of runs between its stretches of whitespace, cur being the
\* piece begun: a stretch at either end leaves an empty piece there
SplitFrom(runs, cur) ==
    IF runs = <<>> THEN << cur >>
    ELSE IF IsSpace(Head(runs).c)
         THEN << cur >> \o SplitFrom(SkipSpaces(runs), <<>>)
         ELSE SplitFrom(Tail(runs), Append(cur, Head(runs)))

\* str.split(/\s+/): the empty string splits into one empty piece
split(str) == SplitFrom(str, <<>>)

\* new Set(array)
SetOf(seq) == { seq[i] : i \in 1..Len(seq) }

\* A number that is the quotient of two counts, in lowest terms
RECURSIVE GCD(_, _)
GCD(a, b) == IF b = 0 THEN a ELSE GCD(b, a % b)
Quotient(n, d) == [num |-> n \div GCD(n, d), den |-> d \div GCD(n, d)]
Zero == [num |-> 0, den |-> 1]
One == [num |-> 1, den |-> 1]
AtLeast(x, y) == x.num * y.den >= y.num * x.den

SIMILARITY_THRESHOLD == Quotient(7, 10)

\* Fault: the shared words are counted against the words of the first string
stringSimilarity_OverFirst(str1, str2) ==
    LET words1 == SetOf(split(toLowerCase(str1)))
        words2 == SetOf(split(toLowerCase(str2)))
        intersection == { w \in words1 : w \in words2 }
    IN  Quotient(Cardinality(intersection), Cardinality(words1))

\* stringSimilarity of the merge module: Jaccard index of the word sets
stringSimilarity(str1, str2) ==
    LET words1 == SetOf(split(toLowerCase(str1)))
        words2 == SetOf(split(toLowerCase(str2)))
        intersection == { w \in words1 : w \in words2 }
        union == words1 \cup words2
    IN  IF Cardinality(union) > 0
        THEN Quotient(Cardinality(intersection), Cardinality(union))
        ELSE Zero

\* stringSimilarity of the memory manager: the same without the guard
managerStringSimilarity(str1, str2) ==
    LET words1 == SetOf(split(toLowerCase(str1)))
        words2 == SetOf(split(toLowerCase(str2)))
        intersection == { w \in words1 : w \in words2 }
        union == words1 \cup words2
    IN  Quotient(Cardinality(intersection), Cardinality(union))

\* The strings scored: up to MaxRuns runs of up to MaxRunLength characters
ScoredChars == { "a", "A", " " }

RECURSIVE StringsOfRuns(_)
StringsOfRuns(k) ==
    IF k = 0 THEN { <<>> }
    ELSE { str \in { << Run(c, n) >> \o rest :
                       c \in ScoredChars, n \in 1..MaxRunLength,
                       rest \in StringsOfRuns(k - 1) } : Canon(str) = str }

ScoredStrings == UNION { StringsOfRuns(k) : k \in 0..MaxRuns }

\* One call of the scorer on a pair of strings
Score ==
    /\ scored = NoScore
    /\ \E str1 \in ScoredStrings, str2 \in ScoredStrings :
         scored' = [op |-> "stringSimilarity", str1 |-> str1, str2 |-> str2,
                    similarity |-> stringSimilarity(str1, str2),
                    manager |-> managerStringSimilarity(str1, str2)]
    /\ UNCHANGED <<state, call, response, now, generatorCalls, handlerVars,
                   tasks, merged, outputVars>>

SimilaritySpec == Init /\ [][Score]_vars

----------------------------------------------------------------------------
(* The merge of context events: getMergedFacts *)

MAX_FACT_CHARS == 4000

\* A word of one letter, and the text of words with one blank between them
Word(c) == << Run(c, 1) >>

RECURSIVE Join(_)
Join(words) ==
    IF words = <<>> THEN <<>>
    ELSE IF Len(words) = 1 THEN Head(words)
    ELSE Head(words) \o << Run(" ", 1) >> \o Join(Tail(words))

\* A text of n times one letter
Repeat(c, n) == << Run(c, n) >>

\* The facts a source holds become MergedFacts with the source's name
FromSource(data, source) ==
    [i \in 1..Len(data) |->
       [fact |-> data[i].fact, _timestamp |-> data[i]._timestamp,
        _source |-> source]]

\* The index of the first entry of kept that fact is similar to, or 0
FirstSimilar(kept, fact) ==
    LET similar == { i \in 1..Len(kept) :
                       AtLeast(stringSimilarity(fact.fact, kept[i].fact),
                               SIMILARITY_THRESHOLD) }
    IN  IF similar = {} THEN 0 ELSE CHOOSE i \in similar : \A j \in similar : i <= j

RECURSIVE deduplicateInto(_, _)
\* The loop of deduplicateFacts over the facts still to come
deduplicateInto(kept, facts) ==
    IF facts = <<>> THEN kept
    ELSE LET fact == Head(facts)
             i == FirstSimilar(kept, fact)
         IN  deduplicateInto(
               IF i = 0 THEN Append(kept, fact)
               ELSE IF fact._timestamp > kept[i]._timestamp
                    THEN [kept EXCEPT ![i] = fact]
                    ELSE kept,
               Tail(facts))

deduplicateFacts(facts) == deduplicateInto(<<>>, facts)

\* Fault: x goes in front of the entries with its own key
InsertByKey_BeforeEquals(sorted, x) ==
    LET k == Cardinality({ i \in 1..Len(sorted) : sorted[i].key > x.key })
    IN  SubSeq(sorted, 1, k) \o << x >> \o SubSeq(sorted, k + 1, Len(sorted))

\* x put into a list sorted by falling key, behind the entries whose key is
\* not smaller: Array.prototype.sort is stable
InsertByKey(sorted, x) ==
    LET k == Cardinality({ i \in 1..Len(sorted) : sorted[i].key >= x.key })
    IN  SubSeq(sorted, 1, k) \o << x >> \o SubSeq(sorted, k + 1, Len(sorted))

RECURSIVE SortInto(_, _)
SortInto(sorted, rest) ==
    IF rest = <<>> THEN sorted
    ELSE SortInto(InsertByKey(sorted, Head(rest)), Tail(rest))

\* items.sort((a, b) => key(b) - key(a)), keys being the key of each item
SortDescending(items, keys) ==
    LET sorted == SortInto(<<>>, [i \in 1..Len(items) |->
                                    [key |-> keys[i], item |-> items[i]]])
    IN  [i \in 1..Len(sorted) |-> sorted[i].item]

sortNewestFirst(facts) ==
    SortDescending(facts, [i \in 1..Len(facts) |-> facts[i]._timestamp])

RECURSIVE applyBudget_SkipsOversized(_, _, _)
\* Fault: an item that does not fit is passed over and the walk goes on
applyBudget_SkipsOversized(facts, totalChars, maxChars) ==
    IF facts = <<>> THEN <<>>
    ELSE IF totalChars + Length(Head(facts).fact) > maxChars
         THEN applyBudget_SkipsOversized(Tail(facts), totalChars, maxChars)
         ELSE << Head(facts).fact >>
              \o applyBudget_SkipsOversized(
                   Tail(facts), totalChars + Length(Head(facts).fact), maxChars)

RECURSIVE applyBudget(_, _, _)
\* The budget loop: facts are taken whole until one would not fit
applyBudget(facts, totalChars, maxChars) ==
    IF facts = <<>> \/ totalChars + Length(Head(facts).fact) > maxChars
    THEN <<>>
    ELSE << Head(facts).fact >>
         \o applyBudget(Tail(facts), totalChars + Length(Head(facts).fact),
                        maxChars)

\* What the reads of one merge meet: the local store's answer, the
\* authentication state and the remote store's answer
Loaded(data) == [kind |-> "ok", data |-> data]
Rejected == [kind |-> "rejects", data |-> <<>>]
MissingKey == [kind |-> "missing", data |-> <<>>]

\* Step 1: a read that rejects is caught and leaves the local facts empty;
\* a store without the key reads as no facts
localFactsOf(env) ==
    IF env.local.kind = "ok" THEN FromSource(env.local.data, "local") ELSE <<>>

\* Fault: a rejected remote load discards the local facts as well
allFactsOf_LocalLostOnFailure(env) ==
    IF env.auth = "rejects" \/ (env.auth = "authenticated" /\ env.cloud.kind # "ok")
    THEN <<>>
    ELSE localFactsOf(env)
         \o (IF env.auth = "authenticated"
             THEN FromSource(env.cloud.data, "cloud") ELSE <<>>)

\* Steps 1 to 3, up to the merged list: the remote facts are loaded when the
\* user is authenticated; a rejection of either call is caught
allFactsOf(env) ==
    localFactsOf(env)
    \o (IF env.auth = "authenticated" /\ env.cloud.kind = "ok"
        THEN FromSource(env.cloud.data, "cloud") ELSE <<>>)

getMergedFacts(env, maxChars) ==
    LET deduped == sortNewestFirst(deduplicateFacts(allFactsOf(env)))
    IN  [thrown |-> None, facts |-> applyBudget(deduped, 0, maxChars)]

\* The context events of the merges checked.  One family is about
\* duplicates: texts that share words, in any order, at either of two times
\* and from either source
UserPrefersTypeScript == Join(<< Word("A"), Word("p"), Word("t") >>)
UserReallyPrefersTypeScript == Join(<< Word("A"), Word("r"), Word("p"), Word("t") >>)
ReallyPrefersTypeScript == Join(<< Word("r"), Word("p"), Word("t") >>)
userPrefersTypeScript == Join(<< Word("a"), Word("p"), Word("t") >>)

SimilarTexts ==
    { UserPrefersTypeScript, UserReallyPrefersTypeScript,
      ReallyPrefersTypeScript, userPrefersTypeScript }

Timestamps == { 1000, 2000 }

SimilarFacts == [fact : SimilarTexts, _timestamp : Timestamps]

\* The lists of up to n members of set
ListsOf(set, n) == UNION { [1..k -> set] : k \in 0..n }

\* The other family is about the budget: unlike texts of 100, 50 and 150
\* characters, each with its own time
SizedFacts ==
    { [fact |-> Repeat("d", 100), _timestamp |-> 4000],
      [fact |-> Repeat("c", 100), _timestamp |-> 3000],
      [fact |-> Repeat("b", 100), _timestamp |-> 2000],
      [fact |-> Repeat("a", 100), _timestamp |-> 1000],
      [fact |-> Repeat("e", 50),  _timestamp |-> 500],
      [fact |-> Repeat("f", 150), _timestamp |-> 2500] }

RECURSIVE Arrangements(_)
\* The lists of distinct members of set
Arrangements(set) ==
    { <<>> } \cup UNION { { << x >> \o rest : rest \in Arrangements(set \ { x }) } :
                          x \in set }

Budgets == { 0, 100, 250, MAX_FACT_CHARS }

\* The reads of a merge of the first family: the facts of a list are split
\* between the two stores at any place
SplitReads(list) ==
    { [local |-> Loaded(SubSeq(list, 1, k)), auth |-> "authenticated",
       cloud |-> Loaded(SubSeq(list, k + 1, Len(list)))] : k \in 0..Len(list) }

\* Each read may fail, whatever the other store holds
FailingReads ==
    { [local |-> l, auth |-> a, cloud |-> c] :
        l \in { Rejected, MissingKey } \cup { Loaded(list) : list \in ListsOf(SimilarFacts, 1) },
        a \in { "rejects", "unauthenticated", "authenticated" },
        c \in { Rejected } \cup { Loaded(list) : list \in ListsOf(SimilarFacts, 1) } }

BudgetReads ==
    { [local |-> Loaded(list), auth |-> "unauthenticated", cloud |-> Loaded(<<>>)] :
        list \in Arrangements(SizedFacts) }

\* getMergedFacts(maxChars) returns
MergeReturns(env, maxChars) ==
    /\ merged' = [op |-> "getMergedFacts", env |-> env, maxChars |-> maxChars,
                  result |-> getMergedFacts(env, maxChars)]
    /\ UNCHANGED <<state, call, response, now, generatorCalls, handlerVars,
                   tasks, scored, outputVars>>

\* One call of getMergedFacts
MergeFacts ==
    /\ merged = NoMerge
    /\ \/ \E list \in ListsOf(SimilarFacts, MaxFacts) :
            \E env \in SplitReads(list) : MergeReturns(env, MAX_FACT_CHARS)
       \/ \E env \in FailingReads : MergeReturns(env, MAX_FACT_CHARS)
       \/ \E env \in BudgetReads, maxChars \in Budgets :
            MergeReturns(env, maxChars)

----------------------------------------------------------------------------
(* The prompt of the consumption side: getMergedFactsForPrompt.  Dates are
   counted in whole days, so that daysBetween is the difference of two
   dates; confidences are in hundredths. *)

CONFIDENCE_THRESHOLD == 30
CONFIDENCE_HALF_LIFE_DAYS == 60

MATURITY_RANK == [proven |-> 3, established |-> 2, candidate |-> 1]

Abs(x) == IF x < 0 THEN 0 - x ELSE x

RECURSIVE Power(_, _)
Power(b, e) == IF e = 0 THEN 1 ELSE b * Power(b, e - 1)

daysBetween(date1, date2) == Abs(date2 - date1)

\* confidence * 0.5 ^ (daysSince / 60), kept as its factors: the confidence
\* and the exponent in lowest terms
getEffectiveConfidence(fact, today) ==
    [confidence |-> fact.confidence,
     halfLives  |-> Quotient(daysBetween(fact.lastValidated, today),
                             CONFIDENCE_HALF_LIFE_DAYS)]

\* Fault: a fact at the threshold passes
ExceedsThreshold_OrEquals(effective) ==
    Power(effective.confidence, effective.halfLives.den)
      >= Power(CONFIDENCE_THRESHOLD, effective.halfLives.den)
           * Power(2, effective.halfLives.num)

\* effective > CONFIDENCE_THRESHOLD: c * 0.5^(p/q) > t exactly when
\* c^q > t^q * 2^p, none of them negative
ExceedsThreshold(effective) ==
    Power(effective.confidence, effective.halfLives.den)
      > Power(CONFIDENCE_THRESHOLD, effective.halfLives.den)
          * Power(2, effective.halfLives.num)

\* Step 1: the IdentityFacts are loaded when the user is authenticated; a
\* rejection is caught
identityFactsOf(env) ==
    IF env.identityAuth = "authenticated" /\ env.identity.kind = "ok"
    THEN env.identity.data ELSE <<>>

\* Steps 2 and 3: the facts above the threshold, sorted by maturity
validIdentityFactsOf(env) ==
    LET valid == SelectSeq(identityFactsOf(env),
                           LAMBDA f : ExceedsThreshold(
                                        getEffectiveConfidence(f, env.today)))
    IN  SortDescending(valid, [i \in 1..Len(valid) |->
                                 MATURITY_RANK[valid[i].maturity]])

\* Fault: context facts are kept whatever the identity facts say
dedupedContextFactsOf_NoPriority(contextFacts, validIdentityFacts) == contextFacts

\* Step 5: the context facts that are similar to no valid identity fact
dedupedContextFactsOf(contextFacts, validIdentityFacts) ==
    SelectSeq(contextFacts,
              LAMBDA contextFact :
                \A k \in 1..Len(validIdentityFacts) :
                  ~AtLeast(stringSimilarity(contextFact,
                                            validIdentityFacts[k].content),
                           SIMILARITY_THRESHOLD))

\* A text is the sequence of its pieces: a piece written in the program or
\* a string put into a template
Lit(text) == [lit |-> text]
Value(str) == [str |-> str]

RECURSIVE JoinLines(_, _)
\* lines.join(separator)
JoinLines(lines, separator) ==
    IF lines = <<>> THEN <<>>
    ELSE IF Len(lines) = 1 THEN Head(lines)
    ELSE Head(lines) \o << Lit(separator) >> \o JoinLines(Tail(lines), separator)

identityLine(f) == << Lit("- "), Value(f.content), Lit(" ["), Lit(f.maturity), Lit("]") >>
contextLine(f) == << Lit("- "), Value(f) >>

\* Fault: both sections are written whether or not they have lines
formatSections_AlwaysBoth(validIdentityFacts, dedupedContextFacts) ==
    << Lit("\n\n") >>
    \o JoinLines(
         << << Lit("About this user:\n") >>
            \o JoinLines([k \in 1..Len(validIdentityFacts) |->
                            identityLine(validIdentityFacts[k])], "\n"),
            << Lit("Recent learnings:\n") >>
            \o JoinLines([k \in 1..Len(dedupedContextFacts) |->
                            contextLine(dedupedContextFacts[k])], "\n") >>,
         "\n\n")

\* Step 6: the sections that have lines, or the empty string
formatSections(validIdentityFacts, dedupedContextFacts) ==
    LET about ==
          IF Len(validIdentityFacts) > 0
          THEN << << Lit("About this user:\n") >>
                  \o JoinLines([k \in 1..Len(validIdentityFacts) |->
                                  identityLine(validIdentityFacts[k])], "\n") >>
          ELSE <<>>
        recent ==
          IF Len(dedupedContextFacts) > 0
          THEN << << Lit("Recent learnings:\n") >>
                  \o JoinLines([k \in 1..Len(dedupedContextFacts) |->
                                  contextLine(dedupedContextFacts[k])], "\n") >>
          ELSE <<>>
        sections == about \o recent
    IN  IF Len(sections) = 0 THEN <<>>
        ELSE << Lit("\n\n") >> \o JoinLines(sections, "\n\n")

getMergedFactsForPrompt(env) ==
    LET validIdentityFacts == validIdentityFactsOf(env)
        contextFacts == getMergedFacts(env.context, MAX_FACT_CHARS).facts
    IN  formatSections(validIdentityFacts,
                       dedupedContextFactsOf(contextFacts, validIdentityFacts))

\* The IdentityFacts of the prompts checked
Today == 200

IdentityFactOf(content, maturity, confidence, age) ==
    [content |-> content, maturity |-> maturity, confidence |-> confidence,
     lastValidated |-> Today - age]

WorksAtAcme == Join(<< Word("w"), Word("k"), Word("c") >>)

\* Fresh facts of every maturity, to be ranked
RankedIdentityFacts ==
    { IdentityFactOf(content, maturity, 80, 0) :
        content \in { UserPrefersTypeScript, WorksAtAcme },
        maturity \in DOMAIN MATURITY_RANK }

\* Facts on both sides of the threshold: confidence 0.8 after two half
\* lives, 0.6 and 0.61 after one, 0.42 and 0.43 after half of one, 0.2
\* validated today
DecayedIdentityFacts ==
    { IdentityFactOf(UserPrefersTypeScript, "established", c[1], c[2]) :
        c \in { <<80, 120>>, <<60, 60>>, <<61, 60>>, <<42, 30>>, <<43, 30>>,
                <<20, 0>> } }

\* Two long facts, 5000 characters together
LongIdentityFacts ==
    { IdentityFactOf(Repeat(c, 2500), "proven", 90, 0) : c \in { "x", "y" } }

PromptIdentityFacts ==
    RankedIdentityFacts \cup DecayedIdentityFacts \cup LongIdentityFacts

\* The context events met by a prompt: none, one that is similar to an
\* identity fact, one that is not, both, or two long ones
NoContext == [local |-> MissingKey, auth |-> "unauthenticated", cloud |-> Rejected]

ContextOf(list) ==
    [local |-> Loaded(list), auth |-> "unauthenticated", cloud |-> Rejected]

SimilarEvent == [fact |-> UserReallyPrefersTypeScript, _timestamp |-> 1000]
OtherEvent == [fact |-> Join(<< Word("m"), Word("n") >>), _timestamp |-> 2000]

BothEvents == ContextOf(<< SimilarEvent, OtherEvent >>)

\* Two long events, 5000 characters together: the newer one has the words of
\* a long identity fact, the older one has not
LongEvents ==
    ContextOf(<< [fact |-> Repeat("z", 2500), _timestamp |-> 1000],
                 [fact |-> Repeat("x", 2500), _timestamp |-> 2000] >>)

PromptContexts ==
    { NoContext, ContextOf(<< SimilarEvent >>), ContextOf(<< OtherEvent >>),
      BothEvents, LongEvents }

\* The reads of a prompt: every list of up to MaxIdentityFacts facts with
\* no context event or with both, a list of up to one fact with every
\* context, and every way the load of the facts can fail
PromptReads ==
    { [identityAuth |-> "authenticated", identity |-> Loaded(list),
       today |-> Today, context |-> context] :
        list \in ListsOf(PromptIdentityFacts, MaxIdentityFacts),
        context \in { NoContext, BothEvents } }
    \cup { [identityAuth |-> a, identity |-> i, today |-> Today, context |-> context] :
             a \in { "rejects", "unauthenticated", "authenticated" },
             i \in { Rejected } \cup { Loaded(list) : list \in ListsOf(PromptIdentityFacts, 1) },
             context \in PromptContexts }

\* One call of getMergedFactsForPrompt
MergeForPrompt ==
    /\ merged = NoMerge
    /\ \E env \in PromptReads :
         merged' = [op |-> "getMergedFactsForPrompt", env |-> env,
                    prompt |-> getMergedFactsForPrompt(env)]
    /\ UNCHANGED <<state, call, response, now, generatorCalls, handlerVars,
                   tasks, scored, outputVars>>

MergeNext == MergeFacts \/ MergeForPrompt

MergeSpec == Init /\ [][MergeNext]_vars


----------------------------------------------------------------------------
(* The identity record built from an interview's output:
   interviewOutputToIdentityV2.  A text here is the sequence of its
   characters, so that trim, startsWith, slice and includes are computed on
   the characters as JavaScript computes them. *)

RECURSIVE trimStart(_)
trimStart(text) ==
    IF text # <<>> /\ IsSpace(Head(text)) THEN trimStart(Tail(text)) ELSE text

RECURSIVE trimEnd(_)
trimEnd(text) ==
    IF text # <<>> /\ IsSpace(text[Len(text)])
    THEN trimEnd(SubSeq(text, 1, Len(text) - 1))
    ELSE text

\* String.prototype.trim
trim(text) == trimEnd(trimStart(text))

\* String.prototype.toLowerCase on a text
toLowerCaseText(text) == [i \in 1..Len(text) |-> LowerOf(text[i])]

\* String.prototype.startsWith
startsWith(text, prefix) ==
    Len(text) >= Len(prefix) /\ SubSeq(text, 1, Len(prefix)) = prefix

\* String.prototype.slice(from), from not negative
slice(text, from) == SubSeq(text, from + 1, Len(text))

\* String.prototype.includes
includes(text, part) ==
    \E i \in 0..(Len(text) - Len(part)) : SubSeq(text, i + 1, i + Len(part)) = part

\* The runs of a text, as the Similarity Scorer reads strings
Runs(text) == Canon([i \in 1..Len(text) |-> Run(text[i], 1)])

KNOWN_PREFIXES == << <<"w", "o", "r", "k", "s", " ", "a", "t">>, <<"b", "a", "s", "e", "d", " ", "i", "n">>, <<"l", "o", "c", "a", "t", "e", "d", " ", "i", "n">>, <<"l", "i", "v", "e", "s", " ", "i", "n">> >>

RECURSIVE stripEach(_, _)
\* One run of the for loop over KNOWN_PREFIXES, from the i-th prefix on
stripEach(text, i) ==
    IF i > Len(KNOWN_PREFIXES) THEN text
    ELSE LET prefix == KNOWN_PREFIXES[i] IN
         IF startsWith(toLowerCaseText(text), prefix \o << " " >>)
         THEN stripEach(trim(slice(text, Len(prefix) + 1)), i + 1)
         ELSE stripEach(text, i + 1)

RECURSIVE stripWhile(_)
\* while (changed): a run of the for loop changes the text exactly when it
\* strips a prefix
stripWhile(text) ==
    LET stripped == stripEach(text, 1) IN
    IF stripped = text THEN text ELSE stripWhile(stripped)

RECURSIVE whilePasses(_)
\* How often the body of that while loop runs
whilePasses(text) ==
    LET stripped == stripEach(text, 1) IN
    IF stripped = text THEN 1 ELSE 1 + whilePasses(stripped)

stripPrefixes(value) == stripWhile(trim(value))

\* createIdentityFact({category, content, source: "manual", confidence,
\* visibility}); the confidence is in hundredths
ManualFact(category, content, confidence, visibility) ==
    [category |-> category, content |-> content, source |-> "manual",
     confidence |-> confidence, visibility |-> visibility]

ManualFacts(contents, category, confidence, visibility) ==
    [i \in 1..Len(contents) |->
        ManualFact(category, contents[i], confidence, visibility)]

\* if (value): an optional text that is there and not empty
Truthy(value) == value # None /\ value[1] # <<>>

\* The facts pushed before the duplicate pass, in the order of the pushes
pushedFacts(output) ==
    LET identity == output.identity IN
       ManualFacts(identity.expertise.technologies, "expertise", 90, "public")
    \o ManualFacts(identity.expertise.domains, "expertise", 90, "public")
    \o (IF Truthy(identity.preferences.communicationStyle)
        THEN << ManualFact("preference",
                           identity.preferences.communicationStyle[1],
                           100, "public") >>
        ELSE <<>>)
    \o (IF Truthy(identity.preferences.responseLength)
        THEN << ManualFact("preference",
                           <<"P", "r", "e", "f", "e", "r", "s", " ">> \o identity.preferences.responseLength[1]
                               \o <<" ", "r", "e", "s", "p", "o", "n", "s", "e", "s">>,
                           100, "public") >>
        ELSE <<>>)
    \o ManualFacts(identity.preferences.formatting, "preference", 90, "public")
    \o ManualFacts(identity.context.currentFocus, "focus", 90, "trusted")
    \o ManualFacts(identity.context.projects, "focus", 90, "trusted")
    \o ManualFacts(identity.context.constraints, "context", 80, "trusted")
    \o (IF Truthy(identity.core.company)
        THEN << ManualFact("context",
                           <<"W", "o", "r", "k", "s", " ", "a", "t", " ">> \o stripPrefixes(identity.core.company[1]),
                           100, "trusted") >>
        ELSE <<>>)
    \o (IF Truthy(identity.core.location)
        THEN << ManualFact("context",
                           <<"B", "a", "s", "e", "d", " ", "i", "n", " ">> \o stripPrefixes(identity.core.location[1]),
                           100, "trusted") >>
        ELSE <<>>)

\* similarity of tools/fuzzy-match: the Similarity Scorer
similarity(a, b) == stringSimilarity(Runs(a), Runs(b))

\* x > y for two quotients
MoreThan(x, y) == x.num * y.den > y.num * x.den

DUPLICATE_THRESHOLD == Quotient(17, 20)

\* Fault: a similar fact of any category makes a fact a duplicate
isDuplicate_AnyCategory(kept, fact) ==
    \E i \in 1..Len(kept) :
        MoreThan(similarity(kept[i].content, fact.content), DUPLICATE_THRESHOLD)

\* kept.some(existing => existing.category === fact.category &&
\*                       similarity(existing.content, fact.content) > 0.85)
isDuplicate(kept, fact) ==
    \E i \in 1..Len(kept) :
        /\ kept[i].category = fact.category
        /\ MoreThan(similarity(kept[i].content, fact.content), DUPLICATE_THRESHOLD)

RECURSIVE keepFirstSeen(_, _)
\* The duplicate pass: kept so far, facts still to be looked at
keepFirstSeen(kept, facts) ==
    IF facts = <<>> THEN kept
    ELSE keepFirstSeen(IF isDuplicate(kept, Head(facts)) THEN kept
                       ELSE Append(kept, Head(facts)),
                       Tail(facts))

interviewOutputToIdentityV2(output) ==
    [version |-> "2.0.0",
     core    |-> [name |-> output.identity.core.name,
                  role |-> output.identity.core.role],
     facts   |-> keepFirstSeen(<<>>, pushedFacts(output))]


\* The part of an InterviewOutput that interviewOutputToIdentityV2 reads
OutputOf(company, location, technologies, domains, communicationStyle,
         currentFocus, constraints) ==
    [identity |->
       [core |-> [name |-> Some(<<"A", "d", "a">>), role |-> None,
                  company |-> company, location |-> location],
        expertise |-> [technologies |-> technologies, domains |-> domains],
        preferences |-> [communicationStyle |-> communicationStyle,
                         responseLength |-> Some(<<"a", "d", "a", "p", "t", "i", "v", "e">>),
                         formatting |-> <<>>],
        context |-> [currentFocus |-> currentFocus, projects |-> <<>>,
                     constraints |-> constraints]]]

\* Company and location values as the extraction may phrase them
CompanyValues ==
    { <<"A", "c", "m", "e">>, <<"w", "o", "r", "k", "s", " ", "a", "t", " ", "A", "c", "m", "e">>, <<"w", "o", "r", "k", "s", " ", "a", "t", " ", "w", "o", "r", "k", "s", " ", "a", "t", " ", "A", "c", "m", "e">>, <<"W", "o", "r", "k", "s", " ", "A", "t", " ", "A", "c", "m", "e">>,
      <<" ", "w", "o", "r", "k", "s", " ", "a", "t", " ", " ", "A", "c", "m", "e", " ">>, <<"l", "i", "v", "e", "s", " ", "i", "n", " ", "w", "o", "r", "k", "s", " ", "a", "t", " ", "A", "c", "m", "e">>, <<"W", "O", "R", "K", "S", " ", "A", "T", " ", "b", "a", "s", "e", "d", " ", "i", "n", " ", "A", "c", "m", "e">>,
      <<"w", "o", "r", "k", "s", " ", "a", "t", "l", "a", "s">>, <<"w", "o", "r", "k", "s", " ", "a", "t">>, <<"w", "o", "r", "k", "s", " ", "a", "t", " ", "w", "o", "r", "k", "s", " ", "a", "t">>, <<"w", "o", "r", "k", "s", " ", "a", "t", "\t", "A", "c", "m", "e">>,
      <<>>, <<" ">> }

LocationValues ==
    { <<"L", "i", "s", "b", "o", "n">>, <<"b", "a", "s", "e", "d", " ", "i", "n", " ", "L", "i", "s", "b", "o", "n">>, <<"L", "o", "c", "a", "t", "e", "d", " ", "i", "n", " ", "l", "i", "v", "e", "s", " ", "i", "n", " ", "L", "i", "s", "b", "o", "n">>,
      <<"b", "a", "s", "e", "d", " ", "i", "n">> }

Optional(values) == { None } \cup { Some(v) : v \in values }

PrefixOutputs ==
    { OutputOf(company, location, <<>>, <<>>, None, <<>>, <<>>) :
        company \in Optional(CompanyValues),
        location \in Optional(LocationValues) }

\* Texts of which some are duplicates of each other: six words, the same
\* with another capital, the same with a seventh word, and a company
SixWords == <<"a", " ", "b", " ", "c", " ", "d", " ", "e", " ", "f">>
SixWordsCapital == <<"A", " ", "b", " ", "c", " ", "d", " ", "e", " ", "f">>
SevenWords == <<"a", " ", "b", " ", "c", " ", "d", " ", "e", " ", "f", " ", "g">>
worksAtAcme == <<"w", "o", "r", "k", "s", " ", "a", "t", " ", "a", "c", "m", "e">>
DuplicateTexts == { SixWords, SixWordsCapital, SevenWords, worksAtAcme }

DuplicateOutputs ==
    { OutputOf(company, None, technologies, domains, communicationStyle,
               currentFocus, constraints) :
        company \in { None, Some(<<"A", "c", "m", "e">>) },
        technologies \in ListsOf(DuplicateTexts, MaxTechnologies),
        domains \in ListsOf({ SixWordsCapital, SevenWords }, 1),
        communicationStyle \in { None, Some(SixWords) },
        currentFocus \in ListsOf({ SixWords, SevenWords }, 1),
        constraints \in ListsOf({ SixWords, worksAtAcme }, 1) }

\* One call of interviewOutputToIdentityV2
Convert ==
    /\ converted = NoOutput
    /\ \E output \in PrefixOutputs \cup DuplicateOutputs :
         converted' = [op |-> "interviewOutputToIdentityV2", output |-> output,
                       pushed |-> pushedFacts(output),
                       identity |-> interviewOutputToIdentityV2(output)]
    /\ UNCHANGED <<state, call, response, now, generatorCalls, handlerVars,
                   tasks, mergeVars, contextStore>>


----------------------------------------------------------------------------
(* Numbers of the Output Builder.  A JavaScript number is an IEEE-754 double;
   the ones met here are not negative, below 2^LimbBits and, unless zero, at
   least 2^-11.  A number is written as its count of units of 2^-64 in
   digits of LimbBits binary places, highest first and without leading
   zeros; zero is the empty sequence.  A sum or a quotient is the exact one
   rounded to SignificandBits significant binary places, ties to the even
   one. *)

SignificandBits == 53
LimbBits == 16
FractionLimbs == 4
Base == 2 ^ LimbBits

Front(limbs) == SubSeq(limbs, 1, Len(limbs) - 1)

RECURSIVE StripZeros(_)
StripZeros(limbs) ==
    IF limbs # <<>> /\ Head(limbs) = 0 THEN StripZeros(Tail(limbs)) ELSE limbs

\* The binary places of a number
Width(x) ==
    IF x = <<>> THEN 0
    ELSE LimbBits * (Len(x) - 1)
         + (CHOOSE k \in 1..LimbBits : 2 ^ (k - 1) <= Head(x) /\ Head(x) < 2 ^ k)

RECURSIVE AddLimbs(_, _, _)
\* The exact sum of two digit sequences and a carry
AddLimbs(a, b, carry) ==
    IF carry = 0 /\ a = <<>> THEN b
    ELSE IF carry = 0 /\ b = <<>> THEN a
    ELSE LET x == IF a = <<>> THEN 0 ELSE a[Len(a)]
             y == IF b = <<>> THEN 0 ELSE b[Len(b)]
             sum == x + y + carry
         IN  Append(AddLimbs(IF a = <<>> THEN a ELSE Front(a),
                             IF b = <<>> THEN b ELSE Front(b),
                             sum \div Base),
                    sum % Base)

RECURSIVE DivideLimbs(_, _, _)
\* Long division of a digit sequence by a count: the digits of the quotient
\* and the remainder, rem being the remainder brought down so far
DivideLimbs(limbs, n, rem) ==
    IF limbs = <<>> THEN [quotient |-> <<>>, remainder |-> rem]
    ELSE LET r == Base * rem + Head(limbs)
             rest == DivideLimbs(Tail(limbs), n, r % n)
         IN  [quotient |-> << r \div n >> \o rest.quotient,
              remainder |-> rest.remainder]

\* The double nearest to an exact value: x holds its places down to the
\* unit, inexact tells that the value lies above them.  The places dropped
\* are all in the lowest digit.
RoundToDouble(x, inexact) ==
    LET dropped == Width(x) - SignificandBits IN
    IF dropped <= 0 THEN x
    ELSE LET ulp == 2 ^ dropped
             low == x[Len(x)]
             below == low % ulp
             odd == (low \div ulp) % 2 = 1
             up == \/ 2 * below > ulp
                   \/ 2 * below = ulp /\ (inexact \/ odd)
         IN  AddLimbs(Front(x) \o << low - below >>,
                      IF up THEN << ulp >> ELSE <<>>, 0)

\* The number that is a count
NumberOfCount(n) ==
    IF n = 0 THEN <<>> ELSE << n >> \o [i \in 1..FractionLimbs |-> 0]

\* x + y
AddNumbers(x, y) == RoundToDouble(AddLimbs(x, y, 0), FALSE)

\* x / n for a count n
DivideNumber(x, n) ==
    LET division == DivideLimbs(x, n, 0) IN
    RoundToDouble(StripZeros(division.quotient), division.remainder # 0)

\* x > y
GreaterNumber(x, y) ==
    \/ Len(x) > Len(y)
    \/ /\ Len(x) = Len(y)
       /\ \E i \in 1..Len(x) : /\ x[i] > y[i]
                               /\ \A j \in 1..(i - 1) : x[j] = y[j]

\* The number written as hundredths in decimal: 0.8 is Number(80)
Number(hundredths) == DivideNumber(NumberOfCount(hundredths), 100)

----------------------------------------------------------------------------
(* The expertise part of the InterviewOutput buildOutput makes of the facts *)

\* keywords.some(k => content.toLowerCase().includes(k.toLowerCase()))
someKeyword(content, keywords) ==
    \E i \in 1..Len(keywords) :
        includes(toLowerCaseText(content), toLowerCaseText(keywords[i]))

extractMultipleFacts(facts, category, keywords) ==
    LET categoryFacts == SelectSeq(facts, LAMBDA f : f.category = category)
        keywordFacts ==
            SelectSeq(categoryFacts, LAMBDA f : someKeyword(f.content, keywords))
        chosen == IF Len(keywords) > 0 /\ Len(keywordFacts) > 0
                  THEN keywordFacts ELSE categoryFacts
    IN  [i \in 1..Len(chosen) |-> chosen[i].content]

seniorIndicators ==
    << <<"s", "e", "n", "i", "o", "r">>, <<"l", "e", "a", "d">>, <<"p", "r", "i", "n", "c", "i", "p", "a", "l">>, <<"s", "t", "a", "f", "f">>, <<"d", "i", "r", "e", "c", "t", "o", "r">>, <<"h", "e", "a", "d">>,
       <<"a", "r", "c", "h", "i", "t", "e", "c", "t">> >>

RECURSIVE sumConfidence(_, _)
\* expertise.reduce((sum, f) => sum + f.confidence, 0)
sumConfidence(sum, expertise) ==
    IF expertise = <<>> THEN sum
    ELSE sumConfidence(AddNumbers(sum, Number(Head(expertise).confidence)),
                       Tail(expertise))

\* Fault: the average has only to reach 0.8 and 0.5
levelOf_AtThreshold(hasSeniorIndicator, avgConfidence) ==
    IF hasSeniorIndicator \/ ~GreaterNumber(Number(80), avgConfidence)
    THEN "expert"
    ELSE IF ~GreaterNumber(Number(50), avgConfidence) THEN "intermediate"
    ELSE "beginner"

\* The three returns of inferExpertiseLevel
levelOf(hasSeniorIndicator, avgConfidence) ==
    IF hasSeniorIndicator \/ GreaterNumber(avgConfidence, Number(80))
    THEN "expert"
    ELSE IF GreaterNumber(avgConfidence, Number(50)) THEN "intermediate"
    ELSE "beginner"

inferExpertiseLevel(facts) ==
    LET expertise == SelectSeq(facts, LAMBDA f : f.category = "expertise")
        avgConfidence ==
            DivideNumber(sumConfidence(NumberOfCount(0), expertise),
                         IF Len(expertise) = 0 THEN 1 ELSE Len(expertise))
        hasSeniorIndicator ==
            \E i \in 1..Len(facts) : someKeyword(facts[i].content, seniorIndicators)
    IN  levelOf(hasSeniorIndicator, avgConfidence)

\* buildOutput: identity.expertise
expertiseOf(facts) ==
    [domains |-> extractMultipleFacts(facts, "expertise",
                                      << <<"d", "o", "m", "a", "i", "n">>, <<"f", "i", "e", "l", "d">>, <<"i", "n", "d", "u", "s", "t", "r", "y">> >>),
     technologies |-> extractMultipleFacts(facts, "expertise", <<>>),
     level |-> inferExpertiseLevel(facts)]

\* The facts of an interview: expertise facts of several confidences, in
\* hundredths, and facts of other categories, with and without a seniority
\* indicator in their words
Confidences == { 0, 40, 50, 60, 80, 90, 100 }

LevelFacts ==
    { [category |-> "expertise", content |-> <<"P", "y", "t", "h", "o", "n">>, confidence |-> c] :
        c \in Confidences }
    \cup { [category |-> "core", content |-> <<"S", "e", "n", "i", "o", "r", " ", "e", "n", "g", "i", "n", "e", "e", "r">>, confidence |-> 100],
           [category |-> "core", content |-> <<"A", "d", "a">>, confidence |-> 100],
           [category |-> "expertise", content |-> <<"c", "o", "m", "p", "i", "l", "e", "r", " ", "f", "i", "e", "l", "d">>,
            confidence |-> 60] }

\* One build of the expertise part of an output
BuildExpertise ==
    /\ converted = NoOutput
    /\ \E facts \in ListsOf(LevelFacts, MaxLevelFacts) :
         converted' = [op |-> "buildOutput", facts |-> facts,
                       expertise |-> expertiseOf(facts)]
    /\ UNCHANGED <<state, call, response, now, generatorCalls, handlerVars,
                   tasks, mergeVars, contextStore>>

OutputNext == Convert \/ BuildExpertise

OutputSpec == Init /\ [][OutputNext]_vars


----------------------------------------------------------------------------
(* The context store, ~/.arete/context.json, and the two writers of events:
   addContextEvent of the CLI and addContextEventHandler of the MCP server.
   An event is kept as its id, the number of the events created so far
   standing for the fresh UUID, and its type; its source and data play no part
   in what the store keeps. *)

MAX_EVENTS == 100

VALID_EVENT_TYPES ==
    { "page_visit", "selection", "conversation", "insight", "file" }

createEmptyContextStore == [version |-> "1.0.0", events |-> <<>>]

\* safeParseContextStore(JSON.parse(data)): the store, or nothing when an
\* event of it is not one of the schema
safeParseContextStore(data) ==
    IF \A i \in 1..Len(data.events) : data.events[i].type \in VALID_EVENT_TYPES
    THEN Some(data)
    ELSE None

\* loadContextStore(): the empty store when there is no file or the file is
\* not a store
loadContextStore(file) ==
    IF file = None THEN createEmptyContextStore
    ELSE OrElse(safeParseContextStore(file[1]), createEmptyContextStore)

\* Fault: the newest events are cut off instead of the oldest
pruneOldest_KeepsFirst(events) ==
    IF Len(events) > MAX_EVENTS THEN SubSeq(events, 1, MAX_EVENTS) ELSE events

\* store.events.slice(store.events.length - MAX_EVENTS) when over the limit
pruneOldest(events) ==
    IF Len(events) > MAX_EVENTS
    THEN SubSeq(events, Len(events) - MAX_EVENTS + 1, Len(events))
    ELSE events

\* load, push, prune, save: what both writers do with a new event
pushEvent(c, type) ==
    LET store == loadContextStore(c.file)
        event == [id |-> c.created + 1, type |-> type]
        events == pruneOldest(Append(store.events, event))
    IN  [c EXCEPT !.file = Some([store EXCEPT !.events = events]),
                  !.created = @ + 1]

\* addContextEvent(type, source, data) of the CLI
addContextEvent(c, type) ==
    [pushEvent(c, type) EXCEPT !.output = [op |-> "addContextEvent"]]

\* addContextEventHandler(input) of the MCP server: a type that is not valid
\* is refused and nothing is written
addContextEventHandler(c, type) ==
    IF type \notin VALID_EVENT_TYPES
    THEN [c EXCEPT !.output = [op |-> "addContextEventHandler",
                               success |-> FALSE]]
    ELSE [pushEvent(c, type) EXCEPT !.output = [op |-> "addContextEventHandler",
                                                success |-> TRUE]]

AddContextEvent ==
    /\ contextStore.created < MaxAdds
    /\ contextStore' = addContextEvent(contextStore, "page_visit")
    /\ UNCHANGED <<state, call, response, now, generatorCalls, handlerVars,
                   tasks, mergeVars, converted>>

AddContextEventHandler ==
    /\ contextStore.created < MaxAdds
    /\ \E type \in { "page_visit", "bookmark" } :
         contextStore' = addContextEventHandler(contextStore, type)
    /\ UNCHANGED <<state, call, response, now, generatorCalls, handlerVars,
                   tasks, mergeVars, converted>>

ContextNext == AddContextEvent \/ AddContextEventHandler

ContextSpec == Init /\ [][ContextNext]_vars


----------------------------------------------------------------------------
(* Legal sequential use of one Conductor *)

\* The caller makes one call at a time and only the call the last response
\* asked for: start() on a new session, answer() or answerWithFacts() while
\* a question is pending, decideBranching() when branching was offered.
LegalStart == state.status = "not_started" /\ Start

LegalAnswer == getCurrentQuestion(state) # None /\ Answer

LegalAnswerWithFacts == getCurrentQuestion(state) # None /\ AnswerWithFacts

LegalDecideBranching ==
    state.status = "awaiting_branch_decision" /\ DecideBranching

LegalNext ==
    LegalStart \/ LegalAnswer \/ LegalAnswerWithFacts \/ LegalDecideBranching

\* The caller goes on making the call that is due as long as one is due
LegalSpec == Init /\ [][LegalNext]_vars /\ WF_vars(LegalNext)

----------------------------------------------------------------------------
(* Claims *)

AnswerOps == { "answer", "answerWithFacts" }

\* C1: answer and answerWithFacts called while status is
\* awaiting_branch_decision throw "No question pending" and leave the whole
\* InterviewState (status, coreExchanges, branchExchanges, allFacts,
\* suggestedBranches) as it was.
C1_AnswerWhileAwaitingThrows ==
    [][ (state.status = "awaiting_branch_decision" /\ (Answer \/ AnswerWithFacts))
        => (response' = NoQuestionPending /\ state' = state) ]_vars

C1_Witness ==
    /\ state.status = "awaiting_branch_decision"
    /\ call.op \in AnswerOps
    /\ response = NoQuestionPending
    /\ Len(state.coreExchanges) = Len(CORE_QUESTIONS)

\* C2: start() succeeds only from not_started (status becomes in_progress and
\* the first core question is returned); in every other status it fails and
\* leaves the status as it was.
C2_StartOnlyFromNotStarted ==
    [][ Start =>
          IF state.status = "not_started"
          THEN /\ state'.status = "in_progress"
               /\ response'.type = "ask_question"
               /\ response'.question = CORE_QUESTIONS[1]
          ELSE /\ response'.type = "error"
               /\ state'.status = state.status ]_vars

\* C3: decideBranching called in a status other than awaiting_branch_decision
\* fails and mutates nothing, whatever the decision.
C3_DecideOnlyWhenAwaiting ==
    [][ (state.status # "awaiting_branch_decision" /\ DecideBranching)
        => (response'.type = "error" /\ state' = state) ]_vars

\* C4: completed is terminal: once status is completed no call changes the
\* InterviewState (status, completedAt, exchanges, suggestedBranches,
\* allFacts).
C4_CompletedIsTerminal ==
    [][ state.status = "completed" => state' = state ]_vars

\* C5: in every reachable state allFacts is the concatenation, in order, of
\* the extractedFacts of the core exchanges followed by those of the branch
\* exchanges.
FactsOf(exchanges) ==
    Flatten([i \in 1..Len(exchanges) |-> exchanges[i].extractedFacts])

C6_FourAnswersOfferBranching ==
    [][ \A a \in Answers, ereply \in ExtractionRepliesIn(state),
           breply \in BranchReplies :
          ( /\ state.status = "in_progress"
            /\ Len(state.coreExchanges) < Len(CORE_QUESTIONS)
            /\ AnswerCall(a, ereply, breply) )
          => IF Len(state.coreExchanges) + 1 < Len(CORE_QUESTIONS)
             THEN state'.status = "in_progress"
             ELSE /\ state'.status = "awaiting_branch_decision"
                  /\ state'.suggestedBranches # None
                  /\ breply.kind = "ok" => Len(state'.suggestedBranches[1]) > 0
                  /\ breply.kind # "ok" => Len(state'.suggestedBranches[1]) = 0
      ]_vars

RECURSIVE KeepSelected(_, _)
KeepSelected(questions, ids) ==
    IF questions = <<>> THEN <<>>
    ELSE IF Head(questions).id \in ids
         THEN << Head(questions) >> \o KeepSelected(Tail(questions), ids)
         ELSE KeepSelected(Tail(questions), ids)

ExpectedQueue(s, decision) ==
    LET suggested == OrElse(s.suggestedBranches, <<>>)
        ids == IF decision.selectedQuestions = None THEN {}
               ELSE { decision.selectedQuestions[1][i] :
                        i \in 1..Len(decision.selectedQuestions[1]) }
        chosen == IF ids = {} THEN suggested ELSE KeepSelected(suggested, ids)
    IN  [i \in 1..Min(Len(chosen), maxBranchQuestions) |-> chosen[i]]

C8_WitnessEmpty ==
    /\ call.op = "decideBranching"
    /\ call.decision.type = "continue"
    /\ call.decision.selectedQuestions = Some(<< "b_unknown" >>)
    /\ state.status = "completed"
    /\ state.suggestedBranches # None
    /\ Len(state.suggestedBranches[1]) > 0
    /\ Len(state.coreExchanges) = Len(CORE_QUESTIONS)

\* C9: the question an answer is recorded against is the one the exchange
\* counts give: CORE_QUESTIONS[len(coreExchanges)] in in_progress and
\* suggestedBranches[len(branchExchanges)] in branching (0-based), whatever
\* suggestedBranches holds.
C9_CurrentQuestionFromCounts ==
    [][ (call'.op \in AnswerOps /\ response'.type # "error")
        => /\ state.status = "in_progress" =>
                /\ Len(state'.coreExchanges) = Len(state.coreExchanges) + 1
                /\ Last(state'.coreExchanges).question
                     = CORE_QUESTIONS[Len(state.coreExchanges) + 1]
           /\ state.status = "branching" =>
                /\ Len(state'.branchExchanges) = Len(state.branchExchanges) + 1
                /\ Len(state.branchExchanges) < Len(state.suggestedBranches[1])
                /\ Last(state'.branchExchanges).question
                     = state.suggestedBranches[1][Len(state.branchExchanges) + 1]
      ]_vars

\* C10: in every reachable state, saving the state, loading it into a fresh
\* Conductor and answering gives the same resulting state and the same
\* response as answering on the original Conductor, for the same answer and
\* the same replies of the completion service.
Resumed(s) ==
    restoreState(createInterviewState, loadInterviewState(saveInterviewState(s)))

C11_PathsInterchangeable ==
    \A a \in Answers, ereply \in ExtractionRepliesIn(state),
       breply \in BranchRepliesIn(state), t \in ClockReadings :
      LET cur  == getCurrentQuestion(state)
          F    == IF cur = None THEN <<>>
                  ELSE extractFacts(cur[1], a, state.allFacts, ereply)
          slow == answer(state, a, ereply, breply, t)
          fast == answerWithFacts(state, a, F, breply, t)
      IN  fast.state = slow.state /\ fast.response = slow.response

\* a branch question is pending after a fast-path answer that brought facts
C11_Witness ==
    /\ call.op = "answerWithFacts"
    /\ state.status = "branching"
    /\ getCurrentQuestion(state) # None
    /\ Len(Last(state.branchExchanges).extractedFacts) > 0
    /\ Len(state.allFacts) > 1

C13_ZeroBranchesComplete ==
    [][ ( /\ call'.op \in AnswerOps
          /\ generatorCalls' = generatorCalls + 1
          /\ state'.suggestedBranches = Some(<<>>) )
        => ( /\ state'.status = "completed"
             /\ response'.type = "complete" ) ]_vars

\* C14: extraction failure is never fatal: when the extraction call of an
\* answer given in an answering state fails (transport error or non-2xx
\* status, empty response, malformed JSON), answer does not raise, appends
\* exactly one exchange, with an empty fact list, leaves allFacts as it was,
\* and returns what it would have returned had extraction succeeded with no
\* facts.
ExtractedNothing == [kind |-> "ok", parsed |-> <<>>]

C14_ExtractionFailureNotFatal ==
    \A a \in Answers, ereply \in ExtractionRepliesIn(state),
       breply \in BranchRepliesIn(state), t \in ClockReadings :
      (getCurrentQuestion(state) # None /\ ereply.kind # "ok") =>
        LET cur == getCurrentQuestion(state)[1]
            r   == answer(state, a, ereply, breply, t)
            ok  == answer(state, a, ExtractedNothing, breply, t)
            grown == IF cur.phase = "core" THEN "coreExchanges"
                     ELSE "branchExchanges"
            other == IF cur.phase = "core" THEN "branchExchanges"
                     ELSE "coreExchanges"
        IN  /\ r.response.type # "error"
            /\ Len(r.state[grown]) = Len(state[grown]) + 1
            /\ SubSeq(r.state[grown], 1, Len(state[grown])) = state[grown]
            /\ Last(r.state[grown]).question = cur
            /\ Last(r.state[grown]).extractedFacts = <<>>
            /\ r.state[other] = state[other]
            /\ r.state.allFacts = state.allFacts
            /\ r.response = ok.response
            /\ r.state = ok.state

\* a slow-path answer to a branch question whose extraction failed, in a
\* session that holds facts, with a further question pending
C14_Witness ==
    /\ call.op = "answer"
    /\ response.type = "ask_question"
    /\ state.status = "branching"
    /\ Len(state.branchExchanges) > 0
    /\ Last(state.branchExchanges).extractedFacts = <<>>
    /\ Len(state.allFacts) > 0
    /\ getCurrentQuestion(state) # None

\* C15: every fact stored in the session, in any exchange's extractedFacts
\* and in allFacts, has a confidence between 0 and 1 (0 and 100 hundredths),
\* whichever path produced it, slow-path extraction or facts supplied by the
\* caller, and even if the source reported a confidence outside that range.
ConfidenceInRange(facts) ==
    \A i \in 1..Len(facts) : 0 <= facts[i].confidence /\ facts[i].confidence <= 100

StoredFactsInRange(s) ==
    /\ ConfidenceInRange(s.allFacts)
    /\ ConfidenceInRange(FactsOf(s.coreExchanges))
    /\ ConfidenceInRange(FactsOf(s.branchExchanges))

C15_StoredConfidenceClamped ==
    /\ \A id \in DOMAIN activeInterviews : StoredFactsInRange(activeInterviews[id])
    /\ interviewStateFile # None =>
         StoredFactsInRange(loadInterviewState(interviewStateFile[1]))

\* C19: if persisting the final Identity record fails at completion (the
\* local write or the remote sync), the result of that call is not a plain
\* success: the failure is surfaced to the caller, never silently dropped.
PlainSuccess(r) == r.thrown = None /\ r.success /\ r.error = None

C19_PersistenceFailureSurfaced ==
    [][ ( /\ call'.op = "onboardHandler"
          /\ call'.completion # None
          /\ \/ call'.completion[1].localWrite = "fails"
             \/ call'.completion[1].sync = "fails" )
        => ~PlainSuccess(result') ]_vars

\* C20: across process restarts and handler calls a Conductor is registered
\* under its own session id only (so no id has two), a Conductor registered
\* for the persisted session holds the persisted state, and whenever the
\* persisted interview state exists but no Conductor is registered for its
\* id, a call with mode answer or branch that gets to process its request
\* registers a Conductor for that id whose state is what the request makes
\* of the persisted state, not of a fresh not_started session.
RequestOutcomes(saved, mode) ==
    IF mode = "answer"
    THEN { answer(saved, "I build compilers", x.ereply, breply, now).state :
             x \in HandlerExtractions(saved),
             breply \in HandlerBranchReplies(saved) }
         \cup
         { answerWithFacts(saved, "I build compilers",
                           FastPathFacts(HostFacts), breply, now).state :
             breply \in HandlerBranchReplies(saved) }
    ELSE { decideBranching(saved, decision, now).state : decision \in Decisions }

C20_RegisteredUnderOwnId ==
    \A id \in DOMAIN activeInterviews : activeInterviews[id].id = id

C20_RegisteredHoldsPersisted ==
    interviewStateFile # None =>
      LET saved == loadInterviewState(interviewStateFile[1]) IN
      saved.id \in DOMAIN activeInterviews =>
        saveInterviewState(activeInterviews[saved.id]) = interviewStateFile[1]

C20_RestoredBeforeProcessing ==
    ( /\ interviewStateFile # None
      /\ loadInterviewState(interviewStateFile[1]).id \notin DOMAIN activeInterviews
      /\ call'.op = "onboardHandler"
      /\ call'.mode \in { "answer", "branch" }
      /\ result'.phase # "error" )
    => LET saved == loadInterviewState(interviewStateFile[1]) IN
       /\ call'.restored
       /\ saved.id \in DOMAIN activeInterviews'
       /\ activeInterviews'[saved.id] \in RequestOutcomes(saved, call'.mode)

C20_OneConductorRestoredFromSaved ==
    /\ [](C20_RegisteredUnderOwnId /\ C20_RegisteredHoldsPersisted)
    /\ [][C20_RestoredBeforeProcessing]_vars

\* after a restart the 4th answer was applied to the restored session, which
\* now awaits the branch decision
C20_Witness ==
    /\ call.op = "onboardHandler"
    /\ call.mode = "answer"
    /\ call.restored
    /\ result.phase = "branching"
    /\ "session-1" \in DOMAIN activeInterviews
    /\ Len(activeInterviews["session-1"].coreExchanges) = Len(CORE_QUESTIONS)
    /\ Len(activeInterviews["session-1"].allFacts) > 0

\* C18: the InterviewOutput is produced exactly once per completed session:
\* once a session has completed, no later operation on it returns a response
\* of type complete and completedAt is not set again.
C18_OutputProducedOnce ==
    [][ state.completedAt # None
        => ( /\ response'.type # "complete"
             /\ state'.completedAt = state.completedAt ) ]_vars


\* The parts of C16, each a state predicate of the interleaved Conductor
OneCallInFlight == Len(InFlight) <= 1

CoreExchangesInOrder ==
    /\ Len(state.coreExchanges) <= Len(CORE_QUESTIONS)
    /\ \A i \in 1..Min(Len(state.coreExchanges), Len(CORE_QUESTIONS)) :
         state.coreExchanges[i].question = CORE_QUESTIONS[i]

\* C16: whatever the interleaving of answer, answerWithFacts and
\* decideBranching requests for one session, at most one call to the
\* completion service is in flight at a time, and no pending question is
\* recorded twice: coreExchanges never exceeds 4 entries and its i-th entry
\* is always for CORE_QUESTIONS[i].
C16_InterleavingsSerialized == OneCallInFlight /\ CoreExchangesInOrder

\* The parts of C17
OfferComplete ==
    state.status = "awaiting_branch_decision"
    => state.suggestedBranches # None /\ state.summary # None

AwaitingGenerator(ts) ==
    SelectSeq(ts, LAMBDA task : task.pc = "generateBranchQuestions")

DecidesOnPresentList ==
    (AwaitingGenerator(tasks) # <<>> /\ call'.op = "decideBranching")
    => state.suggestedBranches # None

CompletedStateKept ==
    ( /\ Len(AwaitingGenerator(tasks')) < Len(AwaitingGenerator(tasks))
      /\ state.status = "completed" )
    => state' = state

\* C17: there is no observable state in which status is
\* awaiting_branch_decision while suggestedBranches and summary are not yet
\* set, so a decideBranching that interleaves with the 4th answer never acts
\* on a missing suggestion list, and the state it completed is not written
\* over when the generator returns.
C17_OfferNeverHalfDone ==
    /\ []OfferComplete
    /\ [][DecidesOnPresentList /\ CompletedStateKept]_vars


\* C21: the Similarity Scorer is symmetric and reflexive: sim(a,b) = sim(b,a)
\* for all string pairs, and sim(a,a) = 1 for every non-empty string a; so
\* in the merge module and in the memory manager.
C21_SymmetricReflexive ==
    scored.op = "stringSimilarity"
    => /\ scored.similarity = stringSimilarity(scored.str2, scored.str1)
       /\ scored.manager = managerStringSimilarity(scored.str2, scored.str1)
       /\ (scored.str1 = scored.str2 /\ scored.str1 # <<>>)
          => (scored.similarity = One /\ scored.manager = One)

\* Two different strings that share some of their words, not all
C21_Witness ==
    /\ scored.op = "stringSimilarity"
    /\ scored.str1 # scored.str2
    /\ Len(split(toLowerCase(scored.str1))) # Len(split(toLowerCase(scored.str2)))
    /\ scored.similarity \notin { Zero, One }

\* C22: the Similarity Scorer returns 0 whenever either input string is
\* empty, including when both are the empty string.
C22_EmptyInputScoresZero ==
    (scored.op = "stringSimilarity" /\ (scored.str1 = <<>> \/ scored.str2 = <<>>))
    => scored.similarity = Zero


\* Two merged facts are judged duplicates
Duplicates(f, g) ==
    AtLeast(stringSimilarity(f.fact, g.fact), SIMILARITY_THRESHOLD)

\* f and g are duplicates and f is the earlier one
EarlierDuplicate(f, g) == Duplicates(f, g) /\ f._timestamp < g._timestamp

\* C23: in the merge of context events from local and remote sources,
\* whenever two items are duplicates (Jaccard similarity >= 0.7), the merged
\* result retains the one with the later timestamp and does not retain the
\* earlier one, for every input order and every combination of sources.
C23_LaterDuplicateRetained ==
    (merged.op = "getMergedFacts" /\ merged.maxChars = MAX_FACT_CHARS)
    => LET all == SetOf(allFactsOf(merged.env))
           kept == SetOf(deduplicateFacts(allFactsOf(merged.env)))
       IN  /\ SetOf(merged.result.facts) = { f.fact : f \in kept }
           /\ \A f \in all, g \in all :
                EarlierDuplicate(f, g)
                => /\ f \notin kept
                   /\ (\A h \in all : ~EarlierDuplicate(g, h))
                      => \E h \in kept : /\ Duplicates(g, h)
                                         /\ h._timestamp = g._timestamp


RECURSIVE TotalLength(_)
\* The accumulated length of the texts
TotalLength(texts) ==
    IF texts = <<>> THEN 0 ELSE Length(Head(texts)) + TotalLength(Tail(texts))

\* The newest-first deduplicated list of a merge
RankedFacts(env) == sortNewestFirst(deduplicateFacts(allFactsOf(env)))

\* C24: getMergedFacts(maxChars) never truncates an item and returns exactly
\* a prefix of the newest-first deduplicated list: items are included whole,
\* in order, until the first item whose inclusion would push the accumulated
\* length above maxChars, after which nothing further is included; the total
\* length of the returned items is at most maxChars.
C24_BudgetedPrefix ==
    merged.op = "getMergedFacts"
    => LET ranked == RankedFacts(merged.env)
           facts == merged.result.facts
       IN  /\ Len(facts) <= Len(ranked)
           /\ \A k \in 1..Len(facts) : facts[k] = ranked[k].fact
           /\ TotalLength(facts) <= merged.maxChars
           /\ Len(facts) < Len(ranked)
              => TotalLength(facts) + Length(ranked[Len(facts) + 1].fact)
                   > merged.maxChars

\* Four facts of 100 characters and a budget of 250: two are returned
C24_Witness ==
    /\ merged.op = "getMergedFacts"
    /\ merged.maxChars = 250
    /\ Len(merged.env.local.data) = 4
    /\ \A k \in 1..4 : Length(merged.env.local.data[k].fact) = 100
    /\ Len(merged.result.facts) = 2
    /\ TotalLength(merged.result.facts) = 200


\* The remote side of a merge fails: the authentication check or the load
\* rejects
RemoteFails(env) ==
    env.auth = "rejects" \/ (env.auth = "authenticated" /\ env.cloud.kind = "rejects")

\* C29: a failing source is equivalent to an empty source: for every local
\* content, the merge when the remote load (or the authentication check
\* before it) rejects equals the merge when the remote returns an empty
\* list, and a failing local read yields the remote-only result; the merge
\* never raises because of a source failure.
C29_FailingSourceIsEmpty ==
    merged.op = "getMergedFacts"
    => LET env == merged.env IN
       /\ merged.result.thrown = None
       /\ RemoteFails(env)
          => merged.result =
               getMergedFacts([env EXCEPT !.auth = "authenticated",
                                          !.cloud = Loaded(<<>>)],
                              merged.maxChars)
       /\ env.local.kind = "rejects"
          => merged.result =
               getMergedFacts([env EXCEPT !.local = Loaded(<<>>)],
                              merged.maxChars)

\* The remote load rejects while the local store holds a fact, which is
\* returned
C29_Witness ==
    /\ merged.op = "getMergedFacts"
    /\ merged.env.auth = "authenticated"
    /\ merged.env.cloud.kind = "rejects"
    /\ merged.env.local.kind = "ok"
    /\ merged.env.local.data # <<>>
    /\ merged.result.facts = << merged.env.local.data[1].fact >>


\* What a reader finds in a prompt.  The lines of the first section: a
\* line that goes on with a maturity in brackets
IsLineStart(prompt, k) == prompt[k] = Lit("- ")
IsIdentityLine(prompt, k) ==
    IsLineStart(prompt, k) /\ k + 2 <= Len(prompt) /\ prompt[k + 2] = Lit(" [")

IdentityLines(prompt) ==
    LET starts == SelectSeq([k \in 1..Len(prompt) |-> k],
                            LAMBDA k : IsIdentityLine(prompt, k))
    IN  [n \in 1..Len(starts) |->
           [content |-> prompt[starts[n] + 1].str,
            maturity |-> prompt[starts[n] + 3].lit]]

\* The lines of the second section
ContextLines(prompt) ==
    LET starts == SelectSeq([k \in 1..Len(prompt) |-> k],
                            LAMBDA k : /\ IsLineStart(prompt, k)
                                       /\ ~IsIdentityLine(prompt, k))
    IN  [n \in 1..Len(starts) |-> prompt[starts[n] + 1].str]

HasSection(prompt, title) == \E k \in 1..Len(prompt) : prompt[k] = Lit(title)

\* What is rendered of a fact
Rendered(f) == [content |-> f.content, maturity |-> f.maturity]

\* C25: the character budget applies to the ranked IdentityFact list as
\* well: the IdentityFacts rendered in the prompt are a budget-bounded prefix
\* of the maturity-ranked list, so their accumulated text length never
\* exceeds the budget of 4000 characters.
C25_IdentityFactsWithinBudget ==
    merged.op = "getMergedFactsForPrompt"
    => LET lines == IdentityLines(merged.prompt)
           ranked == validIdentityFactsOf(merged.env)
       IN  /\ Len(lines) <= Len(ranked)
           /\ \A k \in 1..Len(lines) : lines[k] = Rendered(ranked[k])
           /\ TotalLength([k \in 1..Len(lines) |-> lines[k].content])
                <= MAX_FACT_CHARS

\* confidence * 0.5^(days / 60) > 0.3 for a fact validated a multiple of 30
\* days ago, both sides squared: confidence^2 > 0.09 * 2^(days / 30)
EffectiveAboveThreshold(f, today) ==
    LET days == today - f.lastValidated IN
    /\ days % 30 = 0
    /\ f.confidence * f.confidence > 900 * Power(2, days \div 30)

\* C26: an IdentityFact appears in the merged output if and only if its
\* effective confidence, confidence * 0.5^(daysSinceLastValidated / 60), is
\* strictly greater than 0.3; facts at or below 0.3 are dropped.
C26_DecayFilter ==
    merged.op = "getMergedFactsForPrompt"
    => LET loaded == identityFactsOf(merged.env)
           lines == IdentityLines(merged.prompt)
       IN  \A k \in 1..Len(loaded) :
             Len(SelectSeq(lines, LAMBDA line : line = Rendered(loaded[k])))
               = Len(SelectSeq(loaded,
                               LAMBDA g : /\ Rendered(g) = Rendered(loaded[k])
                                          /\ EffectiveAboveThreshold(
                                               g, merged.env.today)))

\* A fact of confidence 0.8 validated 120 days ago is loaded with one
\* validated today; only the latter is in the prompt
C26_Witness ==
    /\ merged.op = "getMergedFactsForPrompt"
    /\ identityFactsOf(merged.env)
         = << IdentityFactOf(UserPrefersTypeScript, "established", 80, 120),
              IdentityFactOf(WorksAtAcme, "established", 80, 0) >>
    /\ IdentityLines(merged.prompt)
         = << [content |-> WorksAtAcme, maturity |-> "established"] >>

\* C27: surviving IdentityFacts are rendered in non-increasing maturity
\* order, and facts of equal maturity keep their relative order from the
\* loaded list.
C27_MaturityOrderStable ==
    merged.op = "getMergedFactsForPrompt"
    => LET lines == IdentityLines(merged.prompt)
           survivors == SelectSeq(identityFactsOf(merged.env),
                                  LAMBDA f : EffectiveAboveThreshold(
                                               f, merged.env.today))
       IN  /\ \A j \in 1..Len(lines), k \in 1..Len(lines) :
                j < k => MATURITY_RANK[lines[j].maturity]
                           >= MATURITY_RANK[lines[k].maturity]
           /\ \A m \in DOMAIN MATURITY_RANK :
                SelectSeq(lines, LAMBDA line : line.maturity = m)
                  = LET same == SelectSeq(survivors, LAMBDA f : f.maturity = m)
                    IN  [k \in 1..Len(same) |-> Rendered(same[k])]

\* A candidate, a proven and another candidate fact are loaded in this
\* order and rendered proven first, the candidates in their loaded order
C27_Witness ==
    /\ merged.op = "getMergedFactsForPrompt"
    /\ identityFactsOf(merged.env)
         = << IdentityFactOf(WorksAtAcme, "candidate", 80, 0),
              IdentityFactOf(UserPrefersTypeScript, "proven", 80, 0),
              IdentityFactOf(UserPrefersTypeScript, "candidate", 80, 0) >>
    /\ IdentityLines(merged.prompt)
         = << [content |-> UserPrefersTypeScript, maturity |-> "proven"],
              [content |-> WorksAtAcme, maturity |-> "candidate"],
              [content |-> UserPrefersTypeScript, maturity |-> "candidate"] >>

\* x is more than y
Exceeds(x, y) == ~AtLeast(y, x)

\* C28: any context event whose similarity to a surviving IdentityFact
\* exceeds 0.7 is absent from the rendered output while that IdentityFact is
\* present, and a context event is never dropped because of an IdentityFact
\* that was itself removed by the decay filter.
C28_IdentityTakesPriority ==
    merged.op = "getMergedFactsForPrompt"
    => LET survivors == SelectSeq(identityFactsOf(merged.env),
                                  LAMBDA f : EffectiveAboveThreshold(
                                               f, merged.env.today))
           events == getMergedFacts(merged.env.context, MAX_FACT_CHARS).facts
           shown == SetOf(ContextLines(merged.prompt))
           lines == SetOf(IdentityLines(merged.prompt))
       IN  \A e \in SetOf(events) :
             /\ \A k \in 1..Len(survivors) :
                  Exceeds(stringSimilarity(e, survivors[k].content),
                          SIMILARITY_THRESHOLD)
                  => e \notin shown /\ Rendered(survivors[k]) \in lines
             /\ (\A k \in 1..Len(survivors) :
                   ~AtLeast(stringSimilarity(e, survivors[k].content),
                            SIMILARITY_THRESHOLD))
                => e \in shown

\* Of two context events the one similar to a surviving fact is left out,
\* the other is shown
C28_Witness ==
    /\ merged.op = "getMergedFactsForPrompt"
    /\ merged.env.context = BothEvents
    /\ [content |-> UserPrefersTypeScript, maturity |-> "proven"]
         \in SetOf(IdentityLines(merged.prompt))
    /\ ContextLines(merged.prompt) = << OtherEvent.fact >>

BeginsWithPhrase(text, phrase) ==
    /\ startsWith(toLowerCaseText(text), phrase)
    /\ Len(text) = Len(phrase) \/ IsSpace(text[Len(phrase) + 1])

NoKnownPrefix(text) ==
    \A i \in 1..Len(KNOWN_PREFIXES) : ~BeginsWithPhrase(text, KNOWN_PREFIXES[i])

\* The value was stripped as the claim says and emitted after the canonical
\* prefix as a context fact, before the duplicate pass
EmittedStripped(value, canonical) ==
    LET stripped == stripPrefixes(value) IN
    /\ NoKnownPrefix(stripped)
    /\ stripPrefixes(stripped) = stripped
    /\ whilePasses(trim(value)) <= Len(value) + 1
    /\ \E i \in 1..Len(converted.pushed) :
         /\ converted.pushed[i].category = "context"
         /\ converted.pushed[i].content = canonical \o stripped

\* C31: the stripped company or location value begins, in any case of the
\* letters, with none of "works at", "based in", "located in", "lives in";
\* stripping a stripped value changes nothing, stripping ends, and the fact
\* emitted is the canonical prefix followed by the stripped value.
C31_NoKnownPrefixRemains ==
    converted.op = "interviewOutputToIdentityV2" =>
      LET core == converted.output.identity.core IN
      /\ Truthy(core.company) => EmittedStripped(core.company[1], <<"W", "o", "r", "k", "s", " ", "a", "t", " ">>)
      /\ Truthy(core.location) => EmittedStripped(core.location[1], <<"B", "a", "s", "e", "d", " ", "i", "n", " ">>)

\* The facts are duplicates of each other for the duplicate pass
SimilarInCategory(f, g) ==
    /\ f.category = g.category
    /\ \/ MoreThan(similarity(f.content, g.content), DUPLICATE_THRESHOLD)
       \/ MoreThan(similarity(g.content, f.content), DUPLICATE_THRESHOLD)

\* C32: in the identity record no two kept facts of one category have a
\* similarity above 0.85; a fact that was dropped has a kept duplicate that
\* was pushed before it; and a fact with no duplicate of its own category
\* before it is kept, whatever facts of other categories are similar to it.
C32_FirstSeenPerCategory ==
    converted.op = "interviewOutputToIdentityV2" =>
      LET pushed == converted.pushed
          kept == converted.identity.facts
      IN  /\ \A i, j \in 1..Len(kept) :
                i < j => ~SimilarInCategory(kept[i], kept[j])
          /\ \A j \in 1..Len(pushed) :
                pushed[j] \notin SetOf(kept) =>
                  \E i \in 1..(j - 1) : /\ pushed[i] \in SetOf(kept)
                                        /\ SimilarInCategory(pushed[i], pushed[j])
          /\ \A j \in 1..Len(pushed) :
                (\A i \in 1..(j - 1) : ~SimilarInCategory(pushed[i], pushed[j]))
                  => pushed[j] \in SetOf(kept)

\* A fact was dropped for a duplicate in its category while two facts of
\* different categories with the same words are both kept
C32_Witness ==
    /\ converted.op = "interviewOutputToIdentityV2"
    /\ LET pushed == converted.pushed
           kept == converted.identity.facts
       IN  /\ Len(kept) < Len(pushed)
           /\ \E i, j \in 1..Len(kept) :
                /\ i < j
                /\ kept[i].category # kept[j].category
                /\ MoreThan(similarity(kept[i].content, kept[j].content),
                            DUPLICATE_THRESHOLD)

\* The expertise facts among the facts, and the sum of their confidences in
\* hundredths
ExpertiseFacts(facts) == SelectSeq(facts, LAMBDA f : f.category = "expertise")

RECURSIVE Hundredths(_)
Hundredths(facts) ==
    IF facts = <<>> THEN 0 ELSE Head(facts).confidence + Hundredths(Tail(facts))

\* The average confidence of the expertise facts is above the level given in
\* hundredths; with no such fact the average counts as 0
AverageAbove(facts, level) ==
    Hundredths(ExpertiseFacts(facts)) > level * Len(ExpertiseFacts(facts))

SeniorityKeywordPresent(facts) ==
    \E i \in 1..Len(facts) : someKeyword(facts[i].content, seniorIndicators)

\* C33: expertise.level is "expert" if a seniority keyword is present or the
\* average confidence of the expertise facts is above 0.8, otherwise
\* "intermediate" if that average is above 0.5, otherwise "beginner", also
\* when there is no expertise fact.
C33_LevelFromAverage ==
    converted.op = "buildOutput" =>
      converted.expertise.level =
        IF SeniorityKeywordPresent(converted.facts)
           \/ AverageAbove(converted.facts, 80)
        THEN "expert"
        ELSE IF AverageAbove(converted.facts, 50) THEN "intermediate"
        ELSE "beginner"

\* The exchange an answer call has just recorded
RecordedExchange ==
    IF Len(state'.coreExchanges) > Len(state.coreExchanges)
    THEN Last(state'.coreExchanges)
    ELSE Last(state'.branchExchanges)

\* C34: the newFacts of the response to answer and to answerWithFacts hold
\* only facts extracted from the answer just processed, none of an earlier
\* answer.
C34_NewFactsOfThisAnswer ==
    [][ ( /\ call'.op \in AnswerOps
          /\ response'.type # "error"
          /\ Len(state'.coreExchanges) + Len(state'.branchExchanges)
               = Len(state.coreExchanges) + Len(state.branchExchanges) + 1 )
        => \A i \in 1..Len(response'.newFacts) :
              response'.newFacts[i] \in SetOf(RecordedExchange.extractedFacts)
      ]_vars

\* The events of the persisted context store
PersistedEvents == loadContextStore(contextStore.file).events

\* C35: after any sequence of addContextEvent calls the persisted store holds
\* at most 100 events, and they are the most recently added ones in the order
\* they were added.
C35_KeepsMostRecent ==
    LET events == PersistedEvents
        kept == Min(contextStore.created, MAX_EVENTS)
    IN  /\ Len(events) = kept
        /\ \A i \in 1..Len(events) :
              events[i].id = contextStore.created - kept + i

\* More events were added than the store holds, and the oldest are gone
C35_Witness ==
    /\ contextStore.created > MAX_EVENTS + 2
    /\ Len(PersistedEvents) = MAX_EVENTS
    /\ PersistedEvents[1].id > 3

\* The newest-first list of context events without the events whose
\* similarity to a surviving identity fact exceeds 0.7
RankedWithoutIdentityDuplicates(env) ==
    LET survivors == SelectSeq(identityFactsOf(env),
                               LAMBDA f : EffectiveAboveThreshold(f, env.today))
    IN  SelectSeq(RankedFacts(env.context),
                  LAMBDA e : \A k \in 1..Len(survivors) :
                               ~Exceeds(stringSimilarity(e.fact,
                                                         survivors[k].content),
                                        SIMILARITY_THRESHOLD))

\* C36: the character budget is applied after the identity-priority drop: the
\* context events rendered are the budget-bounded prefix of the newest-first
\* list from which the identity duplicates have been removed, so that a
\* removed event takes up no budget.
C36_BudgetAfterIdentityDrop ==
    merged.op = "getMergedFactsForPrompt"
    => LET remaining == RankedWithoutIdentityDuplicates(merged.env)
           shown == ContextLines(merged.prompt)
       IN  /\ Len(shown) <= Len(remaining)
           /\ \A k \in 1..Len(shown) : shown[k] = remaining[k].fact
           /\ TotalLength(shown) <= MAX_FACT_CHARS
           /\ Len(shown) < Len(remaining)
              => TotalLength(shown) + Length(remaining[Len(shown) + 1].fact)
                   > MAX_FACT_CHARS

\* C37: the list retained by the dedup pass of the context events is
\* pairwise non-duplicate: no two retained items have a similarity of 0.7 or
\* more, whatever the input list and its order.
C37_RetainedPairwiseDistinct ==
    merged.op = "getMergedFacts"
    => \A i, j \in 1..Len(merged.result.facts) :
          i < j => ~AtLeast(stringSimilarity(merged.result.facts[i],
                                             merged.result.facts[j]),
                            SIMILARITY_THRESHOLD)

\* The queued branch questions no branch exchange has answered yet
UnansweredBranches(s) ==
    LET remaining == RemainingBranches(s) IN
    IF remaining = None THEN 0 ELSE Len(remaining[1])

AnswerMade == call'.op \in {"answer", "answerWithFacts"}

\* C38: under legal sequential use every interview terminates: the session
\* reaches status completed; it is completed with exactly the 4 core answers
\* and at most maxBranchQuestions branch answers; decideBranching is called
\* once, on the offer, and the offer is never made again; and every answer
\* given in the branching state strictly reduces the number of queued branch
\* questions still unanswered.
C38_EveryInterviewTerminates ==
    /\ <>(state.status = "completed")
    /\ [](state.status = "completed" =>
            /\ Len(state.coreExchanges) = Len(CORE_QUESTIONS)
            /\ Len(state.branchExchanges) <= maxBranchQuestions)
    /\ [][/\ call'.op = "decideBranching" =>
               /\ state.status = "awaiting_branch_decision"
               /\ state'.status \in {"branching", "completed"}
          /\ state.status \in {"branching", "completed"} =>
               state'.status \in {"branching", "completed"}
          /\ state.status = "branching" /\ AnswerMade =>
               UnansweredBranches(state') < UnansweredBranches(state)]_vars

\* A session completed after branch answers to a queue that was cut to
\* maxBranchQuestions questions
C38_Witness ==
    /\ state.status = "completed"
    /\ Len(state.coreExchanges) = Len(CORE_QUESTIONS)
    /\ Len(state.branchExchanges) > 1
    /\ state.suggestedBranches # None
    /\ Len(state.suggestedBranches[1]) = maxBranchQuestions

\* The last handler call returned a result that names this mode as the next
NextActionIs(mode) ==
    /\ call.op = "onboardHandler"
    /\ result.thrown = None
    /\ result.nextAction = mode

\* C39: the nextAction of a handler result names a mode that is legal for the
\* persisted session: after "answer" an interview is persisted and the
\* Conductor a call with mode answer would use has a question pending, and
\* after "branch" that Conductor awaits the branch decision.
C39_NextActionIsLegal ==
    /\ NextActionIs("answer") =>
         /\ interviewStateFile # None
         /\ getCurrentQuestion(ConductorInUse) # None
    /\ NextActionIs("branch") =>
         /\ interviewStateFile # None
         /\ ConductorInUse.status = "awaiting_branch_decision"

\* C40: at completion the persisted interview state is cleared only after
\* the identity has been written locally: no step removes the interview state
\* file and leaves no identity file, and so, from the first session on, in
\* every state (after a failed write or a crash between the two steps too)
\* the interview state is persisted or the identity exists.
C40_ClearedOnlyAfterIdentityWritten ==
    /\ [](sessions > 0 => interviewStateFile # None \/ identityFile # None)
    /\ [][interviewStateFile # None /\ interviewStateFile' = None
            => identityFile' # None]_vars

\* The process died between saveIdentity and clearInterviewState
C40_Witness ==
    /\ call.op = "crash"
    /\ identityFile # None
    /\ interviewStateFile # None
    /\ loadInterviewState(interviewStateFile[1]).status = "completed"

====
